---- MODULE Spec2Model ----
(***************************************************************************)
(* A state-machine model of the notification dispatch core:                *)
(* NotificationCenter (send, sendNow, the middleware chains, the queue     *)
(* worker, read/unread state, retryFailed, the subscription hub) together  *)
(* with MemoryStorageAdapter and MemoryQueueAdapter.                       *)
(*                                                                         *)
(* Every await of the TypeScript source is a suspension point: one action  *)
(* of the model runs a handler from one suspension point to the next.  A   *)
(* call of an adapter method whose body has no await of its own (every     *)
(* method of the two memory adapters) takes effect at the call, before the *)
(* caller suspends on the returned promise.                                *)
(*                                                                         *)
(* Notification objects are shared by reference between the in-flight      *)
(* send, the storage map and the queue, as in the source: notif[n] is the  *)
(* one object with id n, stored is the key set of the storage map.         *)
(***************************************************************************)
EXTENDS Integers, Sequences, FiniteSets, TLC

\* ------------------------------------------------------------------ bounds
MaxSends == 1          \* send() calls in one behaviour
MaxClock == 2          \* the wall clock runs from 1 to MaxClock
MaxReads == 1          \* markAsRead / markAllAsRead calls in one behaviour
MaxMwOps == 1          \* use / removeMiddleware calls in one behaviour
MaxSubs == 2           \* subscribe calls in one behaviour
MaxUnsubCalls == 2     \* calls of one unsubscribe function
MaxRetries == 1        \* retryFailed calls in one behaviour
MaxPrefOps == 1        \* updatePreferences calls in flight at a time
MaxDeletes == 1        \* delete / deleteAll calls that are in flight or have rejected
MaxLifeOps == 3        \* start / stop calls in one behaviour

Users == {"u1", "u2"}
\* what a beforeSend hook does: returns the notification as it is, returns a
\* transformed one, returns null, or throws
BeforeOutcomes == {"same", "changed", "null", "throw"}
\* the hooks each of the middleware objects a, b, c implements
Hooks(name) ==
  CASE name = "a" -> {"beforeSend", "afterSend", "onError"}
    [] name = "b" -> {"beforeSend"}
    [] OTHER -> {"afterSend", "onError"}
\* the three subscription streams: subscribe, subscribeToEvents, onUnreadCountChange
Streams == {"raw", "event", "unread"}
\* the callback functions callers subscribe, and the subscriptions they may hold
Callbacks == {"f", "g"}
Keys == Streams \X Users \X Callbacks
\* scheduledFor: NoDate when the field is absent
NoDate == 0
\* the value of an optional string field that is absent
Undefined == "undefined"
\* the channels of an input that has no channels field
Omitted == <<Undefined>>
\* the fields of a NotificationInput besides userId, channels and scheduledFor:
\* a direct input that names no template
PlainInput ==
  [type |-> "info", title |-> "Hi", body |-> "Text", data |-> Undefined,
   priority |-> Undefined, category |-> Undefined, expiresAt |-> NoDate,
   template |-> Undefined]

\* A configuration is the constructor argument of NotificationCenter together
\* with the environment of one scenario: which inputs callers pass and how
\* the transports and hooks of that deployment behave.
BaseConfig ==
  [queue |-> FALSE,              \* config.queue is set
   saveReceipt |-> TRUE,         \* storage.saveReceipt is defined
   faulty |-> FALSE,             \* storage and queue calls may reject
   concurrency |-> 1,            \* config.workers.concurrency
   mw |-> <<"a">>,               \* config.middleware (names)
   transports |-> {"inapp"},     \* names of config.transports
   users |-> {"u1"},             \* userId values callers pass
   channelLists |-> {<<"inapp">>},  \* channels values callers pass
   schedTimes |-> {NoDate},      \* scheduledFor values callers pass
   outcomes |-> {"delivered", "throw"},  \* behaviours of transport.send
   before |-> {"same"},          \* behaviours of beforeSend hooks
   hooks |-> {"ok"},             \* behaviours of afterSend and onError hooks
   registry |-> {"a", "b"},      \* middleware callers add with use() or remove by name
   cbThrow |-> FALSE,            \* subscriber callbacks may throw
   streams |-> Streams,          \* the streams callers subscribe to
   retryChannels |-> {"inapp"},  \* channel arguments callers pass to retryFailed
   readCalls |-> MaxReads,       \* markAsRead / markAllAsRead calls the callers make
   extras |-> {PlainInput},      \* the other input fields callers pass
   templates |-> {},             \* templates callers register
   hour |-> 10,                  \* new Date().getHours() while the scenario runs
   gateCalls |-> {},             \* arguments and hour of direct transport.canSend calls
   slots |-> MaxSends,           \* send() calls in one behaviour, those of sendBatch included
   batches |-> {},               \* inputs arrays callers pass to sendBatch
   prefs |-> {},                 \* preference updates callers pass to updatePreferences
   deletes |-> FALSE,            \* callers call delete and deleteAll
   unknown |-> FALSE,            \* callers pass retryFailed an id no notification has
   randoms |-> {},               \* the strings Math.random() yields twice (none: never)
   cleanup |-> FALSE,            \* config.cleanup.enabled
   stops |-> FALSE,              \* callers call stop()
   receiptFaulty |-> FALSE,      \* storage.saveReceipt may reject a receipt
   prefCalls |-> MaxPrefOps,     \* preference calls the callers keep in flight
   digests |-> {}]               \* enableDigest / disableDigest calls callers make

VARIABLES
  config,        \* the constructor argument and the scenario (see BaseConfig)
  now,           \* Date.now()
  middleware,    \* this.middleware: array of [name, stamp] (stamp: registration number)
  stamps,        \* number of middleware objects registered so far
  mwOps,         \* use / removeMiddleware calls so far
  templates,     \* this.templates: id -> NotificationTemplate
  notif,         \* heap of Notification objects, notif[n] has id n
  stored,        \* MemoryStorageAdapter.notifications (its keys)
  receipts,      \* MemoryStorageAdapter.receipts: id -> array of receipts
  preferences,   \* MemoryStorageAdapter.preferences: user -> <<record>> or <<>>
  queue,         \* MemoryQueueAdapter.queue
  delayedQueue,  \* MemoryQueueAdapter.delayedQueue
  queueTimers,   \* live setInterval timers of MemoryQueueAdapter.start
  sends,         \* the send() calls: slot -> activation record
  passes,        \* the sendNow() activations, in start order
  ticks,         \* worker ticks suspended on dequeueBatch: their batches
  isRunning,     \* this.isRunning
  starting,      \* start() calls suspended on queue.start()
  workerTimers,  \* live setInterval timers of startWorker
  workerInterval,\* this.workerInterval holds a timer handle
  stopping,      \* stop() calls suspended on queue.stop()
  stopped,       \* a stop() call has resolved and start() was not called since
  lifeOps,       \* start / stop calls so far
  cleanupTimers, \* live setInterval timers of startCleanup
  subscribers,       \* this.subscribers: user -> callbacks in insertion order
  eventSubscribers,  \* this.eventSubscribers
  unreadSubscribers, \* this.unreadSubscribers
  handles,       \* (stream, user, callback) -> for each unsubscribe function returned, its calls
  published,     \* the latest publishing step: the callbacks it invoked, and which
                 \* callback of its last event threw (0: none)
  readOps,       \* markAsRead / markAllAsRead / delete / deleteAll calls that are
                 \* in flight or have rejected
  reads,         \* markAsRead / markAllAsRead calls so far
  retryOps,      \* retryFailed calls, in call order
  deleted,       \* the ids a resolved delete or deleteAll call has deleted
  gate,          \* the latest direct transport.canSend call: arguments, hour, result
  prefOps,       \* updatePreferences, enableDigest and disableDigest calls in flight
  prefLog,       \* the calls among them that have resolved, with their user
  batches        \* sendBatch calls, in call order

engineVars == <<config, middleware, stamps, mwOps, templates>>
storeVars == <<notif, stored, receipts, preferences>>
queueVars == <<queue, delayedQueue, queueTimers>>
lifeVars == <<stopping, stopped, lifeOps, cleanupTimers>>
runVars == <<isRunning, starting, workerTimers, workerInterval, ticks, lifeVars>>
hubVars == <<subscribers, eventSubscribers, unreadSubscribers, handles>>
callVars == <<gate, prefOps, batches, deleted, prefLog>>
apiVars == <<readOps, reads, retryOps, callVars>>
vars == <<config, now, middleware, stamps, mwOps, templates, notif, stored, receipts,
          preferences, queue, delayedQueue, queueTimers, sends, passes, ticks,
          isRunning, starting, workerTimers, workerInterval, stopping, stopped,
          lifeOps, cleanupTimers, subscribers,
          eventSubscribers, unreadSubscribers, handles, published, readOps, reads, gate, prefOps, batches, deleted,
          prefLog, retryOps>>

\* ----------------------------------------------------------------- helpers
Range(s) == {s[i] : i \in 1..Len(s)}

\* ------------------------------------------------------ middleware chains
\* a variant that takes the last entry implementing the hook
NextHook_Last(arr, i, hook) ==
  LET C == {j \in (i + 1)..Len(arr) : hook \in Hooks(arr[j].name)}
  IN IF C = {} THEN 0 ELSE CHOOSE j \in C : \A k \in C : j >= k

\* for (const middleware of this.middleware) if (middleware.<hook>) ...:
\* the index of the next entry after position i that implements the hook, or 0
NextHook(arr, i, hook) ==
  LET C == {j \in (i + 1)..Len(arr) : hook \in Hooks(arr[j].name)}
  IN IF C = {} THEN 0 ELSE CHOOSE j \in C : \A k \in C : j <= k

\* The array a chain iterates: the for-of loop holds the array object that
\* this.middleware named when the loop began; use() pushes onto that object,
\* removeMiddleware() replaces this.middleware by a new array.
IterArr(s) == IF s.live THEN middleware ELSE s.arr

\* ------------------------------------------------------------------- build
\* a || b on optional strings: undefined and the empty string are falsy
\* a variant that always takes the second operand
OrElse_Default(a, b) == b

OrElse(a, b) == IF a \in {Undefined, ""} THEN b ELSE a

\* a template default for title or body: a literal string, or the function
\* data => text + data.name
Resolve(default, data) ==
  IF default.fn THEN default.text \o data ELSE default.text

\* buildNotification finds the template it needs: if (input.template) ... if (!template) throw
TemplateFound(input) ==
  input.template \in {Undefined, ""} \/ input.template \in DOMAIN templates

\* input.channels.length in the template branch of buildNotification reads a
\* property of undefined when the input has no channels field: a TypeError.
\* (The direct branch copies the missing value; the scenarios pass inputs
\* without channels only together with a template.)
LengthThrows(input) ==
  input.template \notin {Undefined, ""} /\ input.channels = Omitted

\* buildNotification(input); rev counts nothing in the source: it records
\* which beforeSend hook last transformed the object
BuildNotification(input) ==
  IF input.template \notin {Undefined, ""}
  THEN LET template == templates[input.template]
           title == Resolve(template.defaults.title, input.data)
           body == Resolve(template.defaults.body, input.data)
       IN [type |-> OrElse(input.type, template.type),
           title |-> OrElse(input.title, title),
           body |-> OrElse(input.body, body),
           userId |-> input.userId,
           priority |-> OrElse(input.priority, template.defaults.priority),
           category |-> OrElse(input.category, template.defaults.category),
           status |-> "pending", createdAt |-> now,
           scheduledFor |-> input.scheduledFor,
           expiresAt |-> IF input.expiresAt # NoDate THEN input.expiresAt
                         ELSE IF template.defaults.expiresIn # 0
                         THEN now + template.defaults.expiresIn
                         ELSE NoDate,
           channels |-> IF Len(input.channels) # 0 THEN input.channels
                        ELSE template.defaults.channels,
           readAt |-> NoDate, rev |-> 0]
  ELSE [type |-> input.type, title |-> input.title, body |-> input.body,
        userId |-> input.userId,
        priority |-> OrElse(input.priority, "normal"),
        category |-> input.category,
        status |-> "pending", createdAt |-> now,
        scheduledFor |-> input.scheduledFor, expiresAt |-> input.expiresAt,
        channels |-> input.channels, readAt |-> NoDate, rev |-> 0]

\* the string Math.random().toString(36).substr(2, 9) contributes to the id
\* of the notification built next: one of config.randoms where a scenario
\* names values that come again, and otherwise (r = 0) a string that has not
\* come before, named by the number of notifications built so far
RandomPart(heap, r) == IF r = 0 THEN Len(heap) + 1 ELSE r
Randoms == IF config.randoms = {} THEN {0} ELSE config.randoms

\* generateId(): `notif_${Date.now()}_${random part}`
GenerateId(heap, r) == [ms |-> now, rnd |-> RandomPart(heap, r)]

\* MemoryStorageAdapter.save(n): this.notifications.set(n.id, n); the entry
\* another object held under the same id is replaced
Overwritten(heap, held, saved) ==
  {m \in held : \E n \in saved : m # n /\ heap[m].id = heap[n].id}
StorageSave(heap, held, saved) == (held \ Overwritten(heap, held, saved)) \cup saved

IdleSend ==
  [pc |-> "idle", n |-> 0, live |-> FALSE, arr |-> <<>>, idx |-> 0, err |-> "",
   input |-> <<>>, pass |-> 0, bs |-> <<>>, saves |-> 0, enq |-> <<>>, after |-> <<>>,
   onerr |-> <<>>, pub |-> <<>>, snap |-> <<>>]

InitWith(configs) ==
  /\ config \in configs
  /\ now = 1
  /\ middleware = [i \in 1..Len(config.mw) |-> [name |-> config.mw[i], stamp |-> i]]
  /\ stamps = Len(config.mw)
  /\ mwOps = 0
  /\ templates = [id \in {} |-> <<>>]
  /\ notif = <<>>
  /\ stored = {}
  /\ receipts = <<>>
  /\ preferences = [u \in Users |-> <<>>]
  /\ queue = <<>>
  /\ delayedQueue = <<>>
  /\ sends = [p \in 1..config.slots |-> IdleSend]
  /\ passes = <<>>
  /\ ticks = <<>>
  /\ isRunning = FALSE
  /\ starting = 0
  /\ workerTimers = 0
  /\ workerInterval = FALSE
  /\ stopping = 0
  /\ stopped = FALSE
  /\ lifeOps = 0
  /\ cleanupTimers = 0
  /\ queueTimers = 0
  /\ subscribers = [u \in {} |-> <<>>]
  /\ eventSubscribers = [u \in {} |-> <<>>]
  /\ unreadSubscribers = [u \in {} |-> <<>>]
  /\ handles = [k \in Keys |-> <<>>]
  /\ published = [seq |-> 0, events |-> <<>>, threw |-> 0]
  /\ readOps = <<>>
  /\ reads = 0
  /\ retryOps = <<>>
  /\ gate = <<>>
  /\ prefOps = <<>>
  /\ batches = <<>>
  /\ deleted = {}
  /\ prefLog = {}


\* --------------------------------------------------------------- storage
\* MemoryStorageAdapter.getPreferences: the stored record, or the default one
DefaultPreferences == [globalMute |-> FALSE, channels |-> <<>>]
GetPreferences(u) ==
  IF preferences[u] = <<>> THEN DefaultPreferences ELSE preferences[u][1]

\* MemoryStorageAdapter.countUnread
CountUnread(u) ==
  Cardinality({n \in stored : notif[n].userId = u /\ notif[n].status # "read"})

\* ------------------------------------------------------------- transport
\* the hour of a "HH:MM" string, held as <<HH, MM>>: split(':').map(Number)[0]
ParseHour(hhmm) == hhmm[1]

\* the quiet-hours test of canSend on the parsed hours
\* a variant without the overnight case
InQuietHours_SameDay(startHour, endHour, currentHour) ==
  currentHour >= startHour /\ currentHour < endHour

InQuietHours(startHour, endHour, currentHour) ==
  IF startHour > endHour
  THEN currentHour >= startHour \/ currentHour < endHour
  ELSE currentHour >= startHour /\ currentHour < endHour

\* the category test of canSend: categories is <<>> when the channel preference
\* has no allow-list and <<list>> when it has one
CategoryDenied(categories, category) ==
  /\ categories # <<>> /\ category \notin {Undefined, ""}
  /\ category \notin categories[1]

\* the enabled test of canSend
\* a variant that ignores the flag
ChannelDisabled_Never(prefs, channel) == FALSE

ChannelDisabled(prefs, channel) ==
  channel \in DOMAIN prefs.channels /\ ~prefs.channels[channel].enabled

\* ConsoleTransportAdapter.canSend of the transport named channel, called at
\* local hour currentHour
CanSend(channel, notification, prefs, currentHour) ==
  IF prefs.globalMute THEN FALSE
  ELSE IF ChannelDisabled(prefs, channel) THEN FALSE
  ELSE IF channel \notin DOMAIN prefs.channels THEN TRUE
  ELSE LET channelPref == prefs.channels[channel]
       IN IF CategoryDenied(channelPref.categories, notification.category)
          THEN FALSE
          ELSE IF channelPref.quietHours # <<>>
                  /\ InQuietHours(ParseHour(channelPref.quietHours[1].start),
                                  ParseHour(channelPref.quietHours[1].end),
                                  currentHour)
          THEN FALSE
          ELSE TRUE

\* a direct call transport.canSend(notification, preferences)
GateCheck(channel, notification, prefs, currentHour) ==
  /\ gate' = [channel |-> channel, notification |-> notification, prefs |-> prefs,
              hour |-> currentHour,
              result |-> CanSend(channel, notification, prefs, currentHour)]
  /\ UNCHANGED <<engineVars, now, storeVars, queueVars, sends, passes, runVars,
                 hubVars, published, readOps, reads, retryOps, prefOps, batches,
                 deleted,
                 prefLog>>

Gate ==
  \E g \in config.gateCalls : GateCheck(g.channel, g.notification, g.prefs, g.hour)

\* attempts of the receipt sendNow synthesizes when transport.send throws
SynthAttempts == 1

\* a variant without the catch: the outcome of transport.send is recorded as is
ChannelReceipt_Raw(channel, out) ==
  [channel |-> channel, status |-> out, attempts |-> 1, synth |-> FALSE]

\* the receipt of one channel callback of sendNow: the receipt transport.send
\* returned, or the synthesized failed one when it threw
ChannelReceipt(channel, out) ==
  IF out = "throw"
  THEN [channel |-> channel, status |-> "failed", attempts |-> SynthAttempts,
        synth |-> TRUE]
  ELSE [channel |-> channel, status |-> out, attempts |-> 1, synth |-> FALSE]

\* sendNow's aggregation over the array Promise.all returned ("none": null)
\* a variant that reads "some" for "every"
AllFailed_Some(rc) == \E i \in 1..Len(rc) : rc[i] = "failed"

AllFailed(rc) == \A i \in 1..Len(rc) : rc[i] = "none" \/ rc[i] = "failed"
AnyDelivered(rc) == \E i \in 1..Len(rc) : rc[i] # "none" /\ rc[i] = "delivered"
AggregateStatus(rc) ==
  IF AllFailed(rc) THEN "failed"
  ELSE IF AnyDelivered(rc) THEN "delivered" ELSE "sent"

\* a sendNow activation, suspended on storage.getPreferences
NewPass(n, owner) ==
  [n |-> n, owner |-> owner, pc |-> "prefs",
   prefs |-> GetPreferences(notif[n].userId),
   ch |-> <<>>, rc |-> <<>>, ret |-> <<>>, threw |-> {}, final |-> ""]

\* -------------------------------------------------------- subscription hub

\* the callbacks of one user in a subscription map, in insertion order
Members(map, u) == IF u \in DOMAIN map THEN map[u] ELSE <<>>

\* if (!map.has(userId)) map.set(userId, new Set()); map.get(userId).add(callback)
SetAdd(map, u, cb) ==
  [x \in DOMAIN map \cup {u} |->
     IF x # u THEN map[x]
     ELSE IF cb \in Range(Members(map, u)) THEN map[u]
     ELSE Append(Members(map, u), cb)]

Without(s, cb) == SelectSeq(s, LAMBDA x : x # cb)

\* a variant that drops the user's whole set
SetDelete_User(map, u, cb) == [x \in DOMAIN map \ {u} |-> map[x]]

\* a variant that keeps the key of a set that became empty
SetDelete_KeepKey(map, u, cb) ==
  IF u \notin DOMAIN map THEN map ELSE [map EXCEPT ![u] = Without(@, cb)]

\* the unsubscribe closure: subs.delete(callback); if (subs.size === 0) map.delete(userId)
SetDelete(map, u, cb) ==
  IF u \notin DOMAIN map THEN map
  ELSE IF Without(map[u], cb) = <<>>
  THEN [x \in DOMAIN map \ {u} |-> map[x]]
  ELSE [map EXCEPT ![u] = Without(@, cb)]

\* the number of subscribe calls so far
RECURSIVE SumLen(_, _)
SumLen(f, S) ==
  IF S = {} THEN 0
  ELSE LET x == CHOOSE x \in S : TRUE IN Len(f[x]) + SumLen(f, S \ {x})
Issued == SumLen(handles, Keys)

MapOf(stream) ==
  CASE stream = "raw" -> subscribers
    [] stream = "event" -> eventSubscribers
    [] OTHER -> unreadSubscribers

\* a callback may throw only in a scenario whose subscribers do
ThrowChoices(k) == IF config.cbThrow THEN 0..k ELSE {0}

\* subs.forEach(callback => callback(...)) when callback number t throws
\* (t = 0, or t beyond the set: none throws)
\* a variant in which forEach goes on after a callback threw
Invoked_All(subs, t) == subs

Invoked(subs, t) == IF t = 0 \/ t > Len(subs) THEN subs ELSE SubSeq(subs, 1, t)
Event(stream, type, u, cbs) ==
  [stream |-> stream, type |-> type, user |-> u, cbs |-> cbs]
Announce(events, t) == [seq |-> 1 - published.seq, events |-> events, threw |-> t]

\* notifySubscribers(notification); notifyEventSubscribers({type: 'sent', ...})
\* when callback number t of the two sets taken together throws
\* a variant that publishes the sent event before the raw notification
SentEvents_SentFirst(u, t) ==
  <<Event("event", "sent", u, Members(eventSubscribers, u)),
    Event("raw", "", u, Members(subscribers, u))>>

SentEvents(u, t) ==
  LET raw == Members(subscribers, u)
      ev == Members(eventSubscribers, u)
  IN IF t # 0 /\ t <= Len(raw)
     THEN <<Event("raw", "", u, Invoked(raw, t))>>
     ELSE <<Event("raw", "", u, raw),
            Event("event", "sent", u, Invoked(ev, IF t = 0 THEN 0 ELSE t - Len(raw)))>>
SentThrows(u, t) ==
  t # 0 /\ t <= Len(Members(subscribers, u)) + Len(Members(eventSubscribers, u))
\* the position of the throwing callback in the set it belongs to
SentThrew(u, t) ==
  IF ~SentThrows(u, t) THEN 0
  ELSE IF t <= Len(Members(subscribers, u)) THEN t
  ELSE t - Len(Members(subscribers, u))
SentChoices(u) ==
  ThrowChoices(Len(Members(subscribers, u)) + Len(Members(eventSubscribers, u)))

\* -------------------------------------------------- send: continuations
EndChain(s) == [s EXCEPT !.live = FALSE, !.arr = <<>>, !.idx = 0]

Reject(s, e) == [EndChain(s) EXCEPT !.pc = "rejected", !.err = e]

\* the catch block of send: applyErrorMiddleware from position i of arr, then
\* the exception is thrown again
InvokeError(s, arr, i, e) ==
  LET j == NextHook(arr, i, "onError")
  IN IF j # 0
     THEN [s EXCEPT !.pc = "error", !.idx = j, !.err = e,
                    !.onerr = Append(@, arr[j].stamp)]
     ELSE Reject(s, e)

\* applyAfterSendMiddleware from position i of arr; after the last hook the
\* subscribers are notified (t: the callback that throws) and send returns
InvokeAfter(s, arr, i, t) ==
  LET j == NextHook(arr, i, "afterSend")
      u == notif[s.n].userId
      s1 == [s EXCEPT !.pub = IF t # 0 /\ t <= Len(Members(subscribers, u))
                              THEN <<"raw">> ELSE <<"raw", "sent">>]
  IN IF j # 0
     THEN [s EXCEPT !.pc = "after", !.idx = j, !.after = Append(@, arr[j].stamp)]
     ELSE IF SentThrows(u, t)
     THEN InvokeError([s1 EXCEPT !.live = TRUE, !.arr = <<>>], middleware, 0,
                      "subscriber")
     ELSE [EndChain(s1) EXCEPT !.pc = "resolved"]

\* what a step that took send record s to s2 published
PublishedBy(s, s2, t) ==
  IF s2.pub # s.pub
  THEN Announce(SentEvents(notif[s.n].userId, t), SentThrew(notif[s.n].userId, t))
  ELSE published

\* a collaborator call may reject only when the scenario has faulty adapters
Outcomes == IF config.faulty THEN {TRUE, FALSE} ELSE {TRUE}

\* applyBeforeSendMiddleware from position i of arr on the object current (n
\* in the heap as the step leaves it); when the chain
\* is exhausted send calls storage.save(notification) (ok: the call succeeds)
InvokeBeforeWith(s, arr, i, current, ok) ==
  LET j == NextHook(arr, i, "beforeSend")
  IN IF j # 0
     THEN [s EXCEPT !.pc = "before", !.idx = j,
                    !.bs = Append(@, [stamp |-> arr[j].stamp, arg |-> current.rev,
                                      ret |-> 0])]
     ELSE [EndChain(s) EXCEPT !.pc = IF ok THEN "save" ELSE "saveFailed",
                              !.saves = IF ok THEN @ + 1 ELSE @]

InvokeBefore(s, arr, i, n, ok) == InvokeBeforeWith(s, arr, i, notif'[n], ok)
\* a variant in which the first save stores nothing
SavedBy_Nothing(s, n) == {}

\* await this.storage.save(notification) of send: what the call stores
SavedBy(s, n) == IF s.pc = "save" THEN {n} ELSE {}

\* ------------------------------------------------------------------ send
\* buildNotification throws before send has entered its try block
\* a variant in which the catch block of send sees the exception
TemplateNotFound_Caught(s, arr) ==
  InvokeError([s EXCEPT !.live = TRUE], arr, 0, "templateNotFound")

TemplateNotFound(s, arr) == Reject(s, "templateNotFound")

\* send(input) in slot p run up to its first await, from the heap, storage
\* and activation records st (ok: storage.save will not reject):
\* buildNotification, then the first beforeSend hook is invoked.  snap is
\* not a variable of the source: it records the middleware list as it was
\* when send was called
Started(st, p, input, ok, r) ==
  IF ~TemplateFound(input)
  THEN [st EXCEPT !.sends[p] = TemplateNotFound([st.sends[p] EXCEPT !.input = input],
                                               middleware)]
  ELSE IF LengthThrows(input)
  THEN [st EXCEPT !.sends[p] = Reject([st.sends[p] EXCEPT !.input = input], "typeError")]
  ELSE LET n == Len(st.notif) + 1
           notification == [id |-> GenerateId(st.notif, r)] @@ BuildNotification(input)
           s == InvokeBeforeWith([st.sends[p] EXCEPT !.n = n, !.live = TRUE,
                                                     !.input = input,
                                                     !.snap = middleware],
                                 middleware, 0, notification, ok)
       IN [notif |-> Append(st.notif, notification),
           receipts |-> Append(st.receipts, <<>>),
           sends |-> [st.sends EXCEPT ![p] = s],
           stored |-> StorageSave(Append(st.notif, notification), st.stored,
                                  SavedBy(s, n))]

SendCall(p, input) ==
  /\ sends[p].pc = "idle"
  /\ \A q \in 1..(p - 1) : sends[q].pc # "idle"
  /\ \E ok \in Outcomes, r \in Randoms :
       LET st == Started([notif |-> notif, receipts |-> receipts, sends |-> sends,
                          stored |-> stored], p, input, ok, r)
       IN /\ notif' = st.notif
          /\ receipts' = st.receipts
          /\ sends' = st.sends
          /\ stored' = st.stored
  /\ UNCHANGED <<engineVars, now, preferences, queueVars, passes, runVars, hubVars,
                 published, apiVars>>

\* a variant that lets an empty return value through
BeforeVerdict_PassNull(out) == IF out = "throw" THEN "throw" ELSE "continue"

\* what applyBeforeSendMiddleware and send do with the value a hook settled
\* with: if (!current) break ... if (!notification) throw new Error(filtered)
BeforeVerdict(out) ==
  CASE out = "throw" -> "throw"
    [] out = "null" -> "filtered"
    [] OTHER -> "continue"

\* a beforeSend hook settles: it returns the notification (unchanged or
\* transformed), returns null, or throws
BeforeReturn(p, out) ==
  /\ sends[p].pc = "before"
  /\ LET s == sends[p]
         n == s.n
         arr == IterArr(s)
         rev == IF out = "changed" THEN arr[s.idx].stamp ELSE notif[n].rev
         ret == IF out = "null" THEN -1 ELSE rev
         s1 == [s EXCEPT !.bs[Len(s.bs)].ret = ret]
         verdict == BeforeVerdict(out)
     IN /\ notif' = [notif EXCEPT ![n].rev = rev]
        /\ IF verdict = "throw"
           THEN /\ sends' = [sends EXCEPT ![p] = Reject(s1, "beforeSend")]
                /\ UNCHANGED stored
           ELSE IF verdict = "filtered"
           THEN /\ sends' = [sends EXCEPT ![p] = Reject(s1, "filtered")]
                /\ UNCHANGED stored
           ELSE \E ok \in Outcomes :
                  LET s2 == InvokeBefore(s1, arr, s.idx, n, ok)
                  IN /\ sends' = [sends EXCEPT ![p] = s2]
                     /\ stored' = StorageSave(notif, stored, SavedBy(s2, n))
  /\ UNCHANGED <<engineVars, now, receipts, preferences, queueVars, passes, runVars,
                 hubVars, published, apiVars>>

\* MemoryQueueAdapter.enqueueDelayed / enqueue
EnqueueDelayed(n, delay) ==
  Append(delayedQueue, [notification |-> n, executeAt |-> now + delay])
Enqueue(n) == Append(queue, n)

\* a variant that does not look at scheduledFor
DeliveryPath_Unscheduled(hasQueue, scheduledFor) ==
  IF hasQueue THEN "enqueue" ELSE "sendNow"

\* if (this.queue) { if (notification.scheduledFor) enqueueDelayed else enqueue }
\* else sendNow
DeliveryPath(hasQueue, scheduledFor) ==
  IF hasQueue
  THEN IF scheduledFor # NoDate THEN "enqueueDelayed" ELSE "enqueue"
  ELSE "sendNow"

\* storage.save settled: the try block begins with the enqueue or with sendNow
SaveReturn(p) ==
  /\ sends[p].pc \in {"save", "saveFailed"}
  /\ LET s == sends[p]
         n == s.n
         at == notif[n].scheduledFor
         path == DeliveryPath(config.queue, at)
         delay == at - now
     IN IF s.pc = "saveFailed"
        THEN /\ sends' = [sends EXCEPT ![p] = Reject(s, "save")]
             /\ UNCHANGED <<queueVars, passes>>
        ELSE IF path # "sendNow"
        THEN \E ok \in Outcomes :
               /\ sends' = [sends EXCEPT ![p] =
                    [s EXCEPT !.pc = IF ok THEN "enq" ELSE "enqFailed",
                              !.enq = Append(@, path)]]
               /\ delayedQueue' = IF ok /\ path = "enqueueDelayed"
                                  THEN EnqueueDelayed(n, delay) ELSE delayedQueue
               /\ queue' = IF ok /\ path = "enqueue" THEN Enqueue(n) ELSE queue
               /\ UNCHANGED <<queueTimers, passes>>
        ELSE /\ passes' = Append(passes, NewPass(n, p))
             /\ sends' = [sends EXCEPT ![p] = [s EXCEPT !.pc = "now",
                                                        !.pass = Len(passes) + 1]]
             /\ UNCHANGED queueVars
  /\ UNCHANGED <<engineVars, now, storeVars, runVars, hubVars, published, apiVars>>

\* queue.enqueue / enqueueDelayed settled
EnqReturn(p, t) ==
  /\ sends[p].pc \in {"enq", "enqFailed"}
  /\ LET s == [sends[p] EXCEPT !.live = TRUE]
         s2 == IF sends[p].pc = "enq" THEN InvokeAfter(s, middleware, 0, t)
               ELSE InvokeError(s, middleware, 0, "enqueue")
     IN /\ sends' = [sends EXCEPT ![p] = s2]
        /\ published' = PublishedBy(s, s2, t)
  /\ UNCHANGED <<engineVars, now, storeVars, queueVars, passes, runVars, hubVars,
                 apiVars>>

\* an afterSend hook settles
AfterReturn(p, out, t) ==
  /\ sends[p].pc = "after"
  /\ LET s == sends[p]
         s2 == IF out = "ok" THEN InvokeAfter(s, IterArr(s), s.idx, t)
               ELSE InvokeError([s EXCEPT !.live = TRUE, !.arr = <<>>], middleware, 0,
                                "afterSend")
     IN /\ sends' = [sends EXCEPT ![p] = s2]
        /\ published' = PublishedBy(s, s2, t)
  /\ UNCHANGED <<engineVars, now, storeVars, queueVars, passes, runVars, hubVars,
                 apiVars>>

\* an onError hook settles; its own exception replaces the one being handled
ErrorReturn(p, out) ==
  /\ sends[p].pc = "error"
  /\ LET s == sends[p]
     IN sends' = [sends EXCEPT ![p] =
          IF out = "ok" THEN InvokeError(s, IterArr(s), s.idx, s.err)
          ELSE Reject(s, "onError")]
  /\ UNCHANGED <<engineVars, now, storeVars, queueVars, passes, runVars, hubVars,
                 published, apiVars>>

\* ---------------------------------------------------------------- sendNow
\* getPreferences settled: every channel callback runs up to its first await,
\* in channel order: transport lookup, canSend, then transport.send is invoked
PassFanOut(k) ==
  /\ passes[k].pc = "prefs"
  /\ LET ps == passes[k]
         chs == notif[ps.n].channels
     IN passes' = [passes EXCEPT ![k] =
          [ps EXCEPT !.pc = "chan",
                     !.ch = [i \in 1..Len(chs) |->
                               IF chs[i] \in config.transports
                                  /\ CanSend(chs[i], notif[ps.n], ps.prefs, config.hour)
                               THEN "wait" ELSE "skip"],
                     !.rc = [i \in 1..Len(chs) |-> "none"],
                     !.ret = [i \in 1..Len(chs) |-> "none"]]]
  /\ UNCHANGED <<engineVars, now, storeVars, queueVars, sends, runVars, hubVars,
                 published, apiVars>>

\* MemoryStorageAdapter.saveReceipt, when the storage has the method
SaveReceipt(n, r) ==
  IF config.saveReceipt THEN [receipts EXCEPT ![n] = Append(@, r)] ELSE receipts

\* the outcomes of the saveReceipt call in the try block of a channel callback
ReceiptOutcomes ==
  IF config.receiptFaulty /\ config.saveReceipt THEN {TRUE, FALSE} ELSE {TRUE}

\* the receipt a channel callback of sendNow returns: when the saveReceipt of
\* the try block rejects, control passes to the catch block as if the
\* transport had thrown
CallbackReceipt(channel, out, saved) ==
  IF saved THEN ChannelReceipt(channel, out) ELSE ChannelReceipt(channel, "throw")

\* transport.send of channel i settles; the receipt is saved and returned
\* (ret: what transport.send returned, "none" when it threw)
ChanSettle(k, i, out) ==
  /\ passes[k].pc = "chan"
  /\ passes[k].ch[i] = "wait"
  /\ \E saved \in ReceiptOutcomes :
       LET ps == passes[k]
           r == CallbackReceipt(notif[ps.n].channels[i], out, saved)
       IN /\ passes' = [passes EXCEPT ![k] =
               [ps EXCEPT !.ch[i] = "done", !.rc[i] = r.status,
                          !.ret[i] = IF out = "throw" THEN "none" ELSE out,
                          !.threw = IF out = "throw" THEN @ \cup {i} ELSE @]]
          /\ receipts' = SaveReceipt(ps.n, r)
  /\ UNCHANGED <<engineVars, now, notif, stored, preferences, queueVars, sends,
                 runVars, hubVars, published, apiVars>>

\* Promise.all resolved: the status is computed and the notification saved again
PassAggregate(k) ==
  /\ passes[k].pc = "chan"
  /\ \A i \in 1..Len(passes[k].ch) : passes[k].ch[i] # "wait"
  /\ LET ps == passes[k]
         st == AggregateStatus(ps.rc)
     IN /\ notif' = [notif EXCEPT ![ps.n].status = st]
        /\ \E ok \in Outcomes :
             /\ passes' = [passes EXCEPT ![k] =
                  [ps EXCEPT !.pc = IF ok THEN "save" ELSE "saveFailed",
                             !.final = st]]
             /\ stored' = IF ok THEN StorageSave(notif, stored, {ps.n}) ELSE stored
  /\ UNCHANGED <<engineVars, now, receipts, preferences, queueVars, sends, runVars,
                 hubVars, published, apiVars>>

\* sendNow's storage.save settled: sendNow returns to send, or to the worker tick
PassReturn(k, t) ==
  /\ passes[k].pc \in {"save", "saveFailed"}
  /\ LET ps == passes[k]
         ok == ps.pc = "save"
         p == ps.owner
     IN /\ passes' = [passes EXCEPT ![k].pc = IF ok THEN "done" ELSE "rejected"]
        /\ IF p = 0 THEN /\ t = 0
                         /\ UNCHANGED <<sends, published>>
           ELSE LET s == [sends[p] EXCEPT !.live = TRUE]
                    s2 == IF ok THEN InvokeAfter(s, middleware, 0, t)
                          ELSE InvokeError(s, middleware, 0, "sendNow")
                IN /\ sends' = [sends EXCEPT ![p] = s2]
                   /\ published' = PublishedBy(s, s2, t)
  /\ UNCHANGED <<engineVars, now, storeVars, queueVars, runVars, hubVars, apiVars>>

\* the users whose subscribers a step of send p may notify
\* the sends of inputs[i..] started one after the other in slots p, p + 1, ...
RECURSIVE StartAll(_, _, _, _, _, _)
StartAll(st, p, inputs, oks, rs, i) ==
  IF i > Len(inputs) THEN st
  ELSE StartAll(Started(st, p, inputs[i], oks[i], rs[i]), p + 1, inputs, oks, rs, i + 1)

\* the first slot that holds no send yet (Len(sends) + 1 when there is none)
FreeSlot == Len(SelectSeq(sends, LAMBDA s : s.pc # "idle")) + 1

\* sendBatch(inputs): inputs.map starts every send, each runs up to its first
\* await, and Promise.all is awaited
SendBatchCall(inputs) ==
  /\ FreeSlot + Len(inputs) - 1 <= Len(sends)
  /\ \E oks \in [1..Len(inputs) -> Outcomes], rs \in [1..Len(inputs) -> Randoms] :
       LET st == StartAll([notif |-> notif, receipts |-> receipts, sends |-> sends,
                           stored |-> stored], FreeSlot, inputs, oks, rs, 1)
       IN /\ notif' = st.notif
          /\ receipts' = st.receipts
          /\ sends' = st.sends
          /\ stored' = st.stored
  /\ batches' = Append(batches,
                       [pc |-> "pending", err |-> "", result |-> <<>>, inputs |-> inputs,
                        members |-> [i \in 1..Len(inputs) |-> FreeSlot + i - 1]])
  /\ UNCHANGED <<engineVars, now, preferences, queueVars, passes, runVars, hubVars,
                 published, readOps, reads, retryOps, gate, prefOps, deleted,
                 prefLog>>

\* what Promise.all resolves with: the notifications of the sends, in input order
\* a variant in completion order of a two-element batch whose second send is
\* the shorter one
Fulfilled_Reversed(members) ==
  [i \in 1..Len(members) |-> sends[members[Len(members) + 1 - i]].n]

Fulfilled(members) == [i \in 1..Len(members) |-> sends[members[i]].n]

\* the promise of Promise.all settles and sendBatch returns or throws: it
\* rejects as soon as a send has rejected (m: the send whose rejection it
\* takes, the earliest one in the source) and resolves when all have resolved
BatchSettle(b, m) ==
  /\ batches[b].pc = "pending"
  /\ LET members == Range(batches[b].members)
     IN IF \E q \in members : sends[q].pc = "rejected"
        THEN /\ m \in members /\ sends[m].pc = "rejected"
             /\ batches' = [batches EXCEPT ![b].pc = "rejected", ![b].err = sends[m].err]
        ELSE /\ \A q \in members : sends[q].pc = "resolved"
             /\ m = 0
             /\ batches' = [batches EXCEPT ![b].pc = "resolved",
                                           ![b].result = Fulfilled(batches[b].members)]
  /\ UNCHANGED <<engineVars, now, storeVars, queueVars, sends, passes, runVars,
                 hubVars, published, readOps, reads, retryOps, gate, prefOps, deleted,
                 prefLog>>

\* an operation in flight returned: its record leaves the sequence
RemoveAt(s, j) == [i \in 1..(Len(s) - 1) |-> IF i < j THEN s[i] ELSE s[i + 1]]

\* { ...current, ...prefs, userId, updatedAt: new Date() }; the key userId is
\* the index of the preferences map
Spread(current, prefs) ==
  [f \in DOMAIN current \cup DOMAIN prefs \cup {"updatedAt"} |->
     IF f = "updatedAt" THEN now
     ELSE IF f \in DOMAIN prefs THEN prefs[f] ELSE current[f]]

\* a call of the preferences API, as recorded when it resolves
UpdateCall(prefs) == [op |-> "updatePreferences", arg |-> prefs]
EnableCall(cfg) == [op |-> "enableDigest", arg |-> [config |-> cfg]]
DisableCall == [op |-> "disableDigest", arg |-> [config |-> ""]]

\* updatePreferences(userId, prefs), up to its await of storage.getPreferences
UpdatePreferencesCall(u, prefs) ==
  /\ Len(prefOps) < config.prefCalls
  /\ prefOps' = Append(prefOps, [user |-> u, current |-> GetPreferences(u),
                                 prefs |-> prefs, pc |-> "save",
                                 call |-> UpdateCall(prefs)])
  /\ UNCHANGED <<engineVars, now, storeVars, queueVars, sends, passes, runVars,
                 hubVars, published, readOps, reads, retryOps, gate, batches, deleted,
                 prefLog>>

\* getPreferences settled: updated is built and storage.savePreferences called;
\* nothing follows its await, in updatePreferences or in its digest caller
UpdatePreferencesSave(j) ==
  /\ prefOps[j].pc = "save"
  /\ preferences' = [preferences EXCEPT ![prefOps[j].user] =
                        <<Spread(prefOps[j].current, prefOps[j].prefs)>>]
  /\ prefOps' = RemoveAt(prefOps, j)
  /\ prefLog' = prefLog \cup {[user |-> prefOps[j].user, call |-> prefOps[j].call]}
  /\ UNCHANGED <<engineVars, now, notif, stored, receipts, queueVars, sends, passes,
                 runVars, hubVars, published, readOps, reads, retryOps, gate, batches,
                 deleted>>

Preferring ==
  \/ \E u \in config.users, prefs \in config.prefs : UpdatePreferencesCall(u, prefs)
  \/ \E j \in 1..Len(prefOps) : UpdatePreferencesSave(j)

\* prefs.data || {}
Data(prefs) == IF "data" \in DOMAIN prefs THEN prefs.data ELSE [f \in {} |-> <<>>]

\* { ...(prefs.data || {}), digestConfig: config }
WithDigest(data, cfg) ==
  [f \in DOMAIN data \cup {"digestConfig"} |->
     IF f = "digestConfig" THEN cfg ELSE data[f]]

\* newData = { ...(prefs.data || {}) }; delete newData.digestConfig
WithoutDigest(data) == [f \in DOMAIN data \ {"digestConfig"} |-> data[f]]

\* { ...prefs, data }: the argument enableDigest and disableDigest pass to
\* updatePreferences
WithData(prefs, data) ==
  [f \in DOMAIN prefs \cup {"data"} |-> IF f = "data" THEN data ELSE prefs[f]]

\* enableDigest(userId, config) or disableDigest(userId), up to the await of
\* getPreferences (current: the preferences that call read)
DigestCall(u, call) ==
  /\ Len(prefOps) < config.prefCalls
  /\ prefOps' = Append(prefOps, [user |-> u, current |-> GetPreferences(u),
                                 prefs |-> <<>>, pc |-> "read", call |-> call])
  /\ UNCHANGED <<engineVars, now, storeVars, queueVars, sends, passes, runVars,
                 hubVars, published, readOps, reads, retryOps, gate, batches, deleted,
                 prefLog>>

\* getPreferences settled: the digest call builds its argument from what it
\* read and calls updatePreferences, which reads the preferences again
DigestUpdate(j) ==
  /\ prefOps[j].pc = "read"
  /\ LET op == prefOps[j]
         data == IF op.call.op = "enableDigest"
                 THEN WithDigest(Data(op.current), op.call.arg.config)
                 ELSE WithoutDigest(Data(op.current))
     IN prefOps' = [prefOps EXCEPT ![j] =
          [op EXCEPT !.prefs = WithData(op.current, data),
                     !.current = GetPreferences(op.user),
                     !.pc = "save"]]
  /\ UNCHANGED <<engineVars, now, storeVars, queueVars, sends, passes, runVars,
                 hubVars, published, readOps, reads, retryOps, gate, batches, deleted,
                 prefLog>>

Digesting ==
  \/ \E u \in config.users, call \in config.digests : DigestCall(u, call)
  \/ \E j \in 1..Len(prefOps) : DigestUpdate(j)

Batching ==
  \/ \E inputs \in config.batches : SendBatchCall(inputs)
  \/ \E b \in 1..Len(batches), m \in {0} \cup DOMAIN sends : BatchSettle(b, m)

SendChoices(p) ==
  IF sends[p].n = 0 THEN {0} ELSE SentChoices(notif[sends[p].n].userId)

Dispatch ==
  \/ \E p \in DOMAIN sends,
        call \in [userId : config.users, channels : config.channelLists,
                  scheduledFor : config.schedTimes],
        extra \in config.extras :
       SendCall(p, call @@ extra)
  \/ \E p \in DOMAIN sends, out \in config.before : BeforeReturn(p, out)
  \/ \E p \in DOMAIN sends : SaveReturn(p)
  \/ \E p \in DOMAIN sends : \E t \in SendChoices(p) : EnqReturn(p, t)
  \/ \E p \in DOMAIN sends, out \in config.hooks :
       \E t \in SendChoices(p) : AfterReturn(p, out, t)
  \/ \E p \in DOMAIN sends, out \in config.hooks : ErrorReturn(p, out)
  \/ \E k \in 1..Len(passes) : PassFanOut(k)
  \/ \E k \in 1..Len(passes) :
       \E i \in 1..Len(passes[k].ch), out \in config.outcomes : ChanSettle(k, i, out)
  \/ \E k \in 1..Len(passes) : PassAggregate(k)
  \/ \E k \in 1..Len(passes) :
       \E t \in SentChoices(notif[passes[k].n].userId) : PassReturn(k, t)

\* -------------------------------------------------------------- middleware
\* use(middleware): this.middleware.push(middleware)
Use(name) ==
  /\ mwOps < MaxMwOps
  /\ mwOps' = mwOps + 1
  /\ stamps' = stamps + 1
  /\ middleware' = Append(middleware, [name |-> name, stamp |-> stamps + 1])
  /\ UNCHANGED <<config, templates, now, storeVars, queueVars, sends, passes, runVars, hubVars,
                 published, apiVars>>

\* this.middleware.filter(m => m.name !== name)
FilterOut(arr, name) == SelectSeq(arr, LAMBDA m : m.name # name)

\* removeMiddleware(name): this.middleware becomes a new array; a chain that is
\* iterating keeps the array object it began with
RemoveMiddleware(name) ==
  /\ mwOps < MaxMwOps
  /\ mwOps' = mwOps + 1
  /\ middleware' = FilterOut(middleware, name)
  /\ sends' = [p \in DOMAIN sends |->
                 IF sends[p].live THEN [sends[p] EXCEPT !.live = FALSE,
                                                        !.arr = middleware]
                 ELSE sends[p]]
  /\ UNCHANGED <<config, templates, stamps, now, storeVars, queueVars, passes, runVars, hubVars,
                 published, apiVars>>

\* registerTemplate(template)
RegisterTemplate(template) ==
  /\ templates' = [id \in DOMAIN templates \cup {template.id} |->
                     IF id = template.id THEN template ELSE templates[id]]
  /\ UNCHANGED <<config, middleware, stamps, mwOps, now, storeVars, queueVars, sends,
                 passes, runVars, hubVars, published, apiVars>>

\* unregisterTemplate(id)
UnregisterTemplate(id) ==
  /\ templates' = [i \in DOMAIN templates \ {id} |-> templates[i]]
  /\ UNCHANGED <<config, middleware, stamps, mwOps, now, storeVars, queueVars, sends,
                 passes, runVars, hubVars, published, apiVars>>

Templating ==
  \/ \E template \in config.templates : RegisterTemplate(template)
  \/ \E template \in config.templates : UnregisterTemplate(template.id)

Registry ==
  \/ \E name \in config.registry : Use(name)
  \/ \E name \in config.registry : RemoveMiddleware(name)

\* ------------------------------------------------------------ subscriptions
\* subscribe / subscribeToEvents / onUnreadCountChange (userId, callback)
Subscribe(stream, u, cb) ==
  /\ Issued < MaxSubs
  /\ subscribers' = IF stream = "raw" THEN SetAdd(subscribers, u, cb) ELSE subscribers
  /\ eventSubscribers' =
       IF stream = "event" THEN SetAdd(eventSubscribers, u, cb) ELSE eventSubscribers
  /\ unreadSubscribers' =
       IF stream = "unread" THEN SetAdd(unreadSubscribers, u, cb)
       ELSE unreadSubscribers
  /\ handles' = [handles EXCEPT ![<<stream, u, cb>>] = Append(@, 0)]
  /\ UNCHANGED <<engineVars, now, storeVars, queueVars, sends, passes, runVars,
                 published, apiVars>>

\* the i-th of the functions returned for (stream, userId, callback) is called
Unsubscribe(stream, u, cb, i) ==
  /\ handles[<<stream, u, cb>>][i] < MaxUnsubCalls
  /\ subscribers' = IF stream = "raw" THEN SetDelete(subscribers, u, cb)
                    ELSE subscribers
  /\ eventSubscribers' =
       IF stream = "event" THEN SetDelete(eventSubscribers, u, cb)
       ELSE eventSubscribers
  /\ unreadSubscribers' =
       IF stream = "unread" THEN SetDelete(unreadSubscribers, u, cb)
       ELSE unreadSubscribers
  /\ handles' = [handles EXCEPT ![<<stream, u, cb>>][i] = @ + 1]
  /\ UNCHANGED <<engineVars, now, storeVars, queueVars, sends, passes, runVars,
                 published, apiVars>>

Hub ==
  \/ \E stream \in config.streams, u \in config.users, cb \in Callbacks :
       Subscribe(stream, u, cb)
  \/ \E stream \in config.streams, u \in config.users, cb \in Callbacks :
       \E i \in 1..Len(handles[<<stream, u, cb>>]) : Unsubscribe(stream, u, cb, i)

\* ------------------------------------------------------- read / unread state
\* MemoryStorageAdapter.markAsRead: the stored object is marked in place
\* a variant that leaves a notification alone that is read already
StorageMarkAsRead_Once(id) ==
  IF id \in stored /\ notif[id].status # "read"
  THEN [notif EXCEPT ![id].status = "read", ![id].readAt = now]
  ELSE notif

StorageMarkAsRead(id) ==
  IF id \in stored
  THEN [notif EXCEPT ![id].status = "read", ![id].readAt = now]
  ELSE notif

\* MemoryStorageAdapter.markAllAsRead
StorageMarkAllAsRead(u) ==
  [n \in DOMAIN notif |->
     IF n \in stored /\ notif[n].userId = u /\ notif[n].status # "read"
     THEN [notif[n] EXCEPT !.status = "read", !.readAt = now]
     ELSE notif[n]]

\* markAsRead(notificationId), up to its await of storage.markAsRead
MarkAsReadCall(id) ==
  /\ reads < config.readCalls
  /\ reads' = reads + 1
  /\ notif' = StorageMarkAsRead(id)
  /\ readOps' = Append(readOps, [pc |-> "marked", id |-> id, user |-> "", count |-> 0])
  /\ UNCHANGED <<engineVars, now, stored, receipts, preferences, queueVars, sends,
                 passes, runVars, hubVars, published, retryOps, callVars>>

\* storage.markAsRead settled: storage.findById(notificationId) is called
MarkAsReadFind(j) ==
  /\ readOps[j].pc = "marked"
  /\ readOps' = IF readOps[j].id \in stored
                THEN [readOps EXCEPT ![j].pc = "found",
                                     ![j].user = notif[readOps[j].id].userId]
                ELSE RemoveAt(readOps, j)
  /\ UNCHANGED <<engineVars, now, storeVars, queueVars, sends, passes, runVars,
                 hubVars, published, reads, retryOps, callVars>>

\* findById settled with a notification: the 'read' event is published and
\* storage.countUnread(userId) is called (t: the callback that throws)
MarkAsReadPublish(j, t) ==
  /\ readOps[j].pc = "found"
  /\ LET u == readOps[j].user
         ev == Members(eventSubscribers, u)
     IN /\ published' = Announce(<<Event("event", "read", u, Invoked(ev, t))>>, t)
        /\ readOps' = IF t # 0
                      THEN [readOps EXCEPT ![j].pc = "rejected"]
                      ELSE [readOps EXCEPT ![j].pc = "count", ![j].count = CountUnread(u)]
  /\ UNCHANGED <<engineVars, now, storeVars, queueVars, sends, passes, runVars,
                 hubVars, reads, retryOps, callVars>>

\* markAllAsRead(userId), up to its await of storage.markAllAsRead
MarkAllAsReadCall(u) ==
  /\ reads < config.readCalls
  /\ reads' = reads + 1
  /\ notif' = StorageMarkAllAsRead(u)
  /\ readOps' = Append(readOps, [pc |-> "count", id |-> 0, user |-> u, count |-> 0])
  /\ UNCHANGED <<engineVars, now, stored, receipts, preferences, queueVars, sends,
                 passes, runVars, hubVars, published, retryOps, callVars>>

\* notifyUnreadSubscribers(userId, count), the last statement of markAsRead,
\* of markAllAsRead, of delete and of deleteAll
NotifyUnread(j, t) ==
  /\ readOps[j].pc = "count"
  /\ LET u == readOps[j].user
     IN published' = Announce(<<[Event("unread", "", u,
                                       Invoked(Members(unreadSubscribers, u), t))
                                 EXCEPT !.type = readOps[j].count]>>, t)
  /\ readOps' = IF t # 0 THEN [readOps EXCEPT ![j].pc = "rejected"]
                ELSE RemoveAt(readOps, j)
  /\ deleted' = IF t # 0 \/ "op" \notin DOMAIN readOps[j] THEN deleted
                ELSE IF readOps[j].op = "delete" THEN deleted \cup {readOps[j].id}
                ELSE deleted \cup readOps[j].ids
  /\ UNCHANGED <<engineVars, now, storeVars, queueVars, sends, passes, runVars,
                 hubVars, reads, retryOps, gate, prefOps, batches,
                 prefLog>>

Reading ==
  \/ \E id \in 1..Len(notif) : MarkAsReadCall(id)
  \/ \E j \in 1..Len(readOps) : MarkAsReadFind(j)
  \/ \E j \in 1..Len(readOps) :
       \E t \in ThrowChoices(Len(Members(eventSubscribers, readOps[j].user))) :
         MarkAsReadPublish(j, t)
  \/ \E u \in config.users : MarkAllAsReadCall(u)
  \/ \E j \in 1..Len(readOps) :
       \E t \in ThrowChoices(Len(Members(unreadSubscribers, readOps[j].user))) :
         NotifyUnread(j, t)

\* ------------------------------------------------------ delete, deleteAll
\* the delete / deleteAll calls in flight or rejected
Deletions == SelectSeq(readOps, LAMBDA r : "op" \in DOMAIN r)

\* MemoryStorageAdapter.delete on each id of ids: the notification and its
\* receipts array leave their maps
StorageDelete(ids) ==
  /\ stored' = stored \ ids
  /\ receipts' = [n \in DOMAIN receipts |-> IF n \in ids THEN <<>> ELSE receipts[n]]
  /\ retryOps' = [j \in DOMAIN retryOps |->
                    IF retryOps[j].live /\ retryOps[j].id \in ids
                    THEN [retryOps[j] EXCEPT !.live = FALSE,
                                             !.held = receipts[retryOps[j].id]]
                    ELSE retryOps[j]]

\* delete(notificationId), up to its await of storage.findById (user "": the
\* id is not stored)
DeleteCall(id) ==
  /\ config.deletes
  /\ Len(Deletions) < MaxDeletes
  /\ readOps' = Append(readOps,
                       [op |-> "delete", pc |-> "finding", id |-> id,
                        user |-> IF id \in stored THEN notif[id].userId ELSE "",
                        count |-> 0])
  /\ UNCHANGED <<engineVars, now, storeVars, queueVars, sends, passes, runVars,
                 hubVars, published, reads, retryOps, callVars>>

\* findById settled: storage.delete(notificationId) is called
DeleteRemove(j) ==
  /\ readOps[j].pc = "finding"
  /\ StorageDelete({readOps[j].id})
  /\ readOps' = [readOps EXCEPT ![j].pc = "deleted"]
  /\ UNCHANGED <<engineVars, now, notif, preferences, queueVars, sends, passes,
                 runVars, hubVars, published, reads, callVars>>

\* storage.delete settled: if the notification was found and is not read,
\* storage.countUnread(userId) is called; otherwise delete returns
DeleteCount(j) ==
  /\ readOps[j].pc = "deleted"
  /\ readOps' = IF readOps[j].user # "" /\ notif[readOps[j].id].status # "read"
                THEN [readOps EXCEPT ![j].pc = "count",
                                     ![j].count = CountUnread(readOps[j].user)]
                ELSE RemoveAt(readOps, j)
  /\ deleted' = IF readOps[j].user # "" /\ notif[readOps[j].id].status # "read"
                THEN deleted ELSE deleted \cup {readOps[j].id}
  /\ UNCHANGED <<engineVars, now, storeVars, queueVars, sends, passes, runVars,
                 hubVars, published, reads, retryOps, gate, prefOps, batches,
                 prefLog>>

\* deleteAll(userId), up to its await of storage.findByUser(userId, {})
DeleteAllCall(u) ==
  /\ config.deletes
  /\ Len(Deletions) < MaxDeletes
  /\ readOps' = Append(readOps,
                       [op |-> "deleteAll", pc |-> "listing", id |-> 0, user |-> u,
                        count |-> 0,
                        ids |-> {n \in stored : notif[n].userId = u}])
  /\ UNCHANGED <<engineVars, now, storeVars, queueVars, sends, passes, runVars,
                 hubVars, published, reads, retryOps, callVars>>

\* findByUser settled: storage.delete is called for every notification of the
\* list, and Promise.all is awaited; notifyUnreadSubscribers(userId, 0) follows
DeleteAllRemove(j) ==
  /\ readOps[j].pc = "listing"
  /\ StorageDelete(readOps[j].ids)
  /\ readOps' = [readOps EXCEPT ![j].pc = "count"]
  /\ UNCHANGED <<engineVars, now, notif, preferences, queueVars, sends, passes,
                 runVars, hubVars, published, reads, callVars>>

Deleting ==
  \/ \E id \in 1..Len(notif) : DeleteCall(id)
  \/ \E j \in 1..Len(readOps) : DeleteRemove(j)
  \/ \E j \in 1..Len(readOps) : DeleteCount(j)
  \/ \E u \in config.users : DeleteAllCall(u)
  \/ \E j \in 1..Len(readOps) : DeleteAllRemove(j)
  \/ \E j \in 1..Len(readOps) :
       \E t \in ThrowChoices(Len(Members(unreadSubscribers, readOps[j].user))) :
         NotifyUnread(j, t)

\* ------------------------------------------------------------ retryFailed
\* a variant that selects by channel only
FailedReceipts_AnyStatus(rs, channel) ==
  SelectSeq(rs, LAMBDA r : channel = "" \/ r.channel = channel)

\* receipts.filter(r => r.status === 'failed' && (!channel || r.channel === channel))
\* (channel "": the argument is omitted)
FailedReceipts(rs, channel) ==
  SelectSeq(rs, LAMBDA r : r.status = "failed" /\ (channel = "" \/ r.channel = channel))

\* the receipts array a retryFailed call holds: the stored array object
RetryArr(op) == IF op.live THEN receipts[op.id] ELSE op.held

\* for (const receipt of failedReceipts): the next receipt after position i
\* whose channel has a transport, or 0
NextReceipt(todo, i) ==
  LET C == {j \in (i + 1)..Len(todo) : todo[j] \in config.transports}
  IN IF C = {} THEN 0 ELSE CHOOSE j \in C : \A k \in C : j <= k

\* the loop of retryFailed from position i: getPreferences is called for the
\* next receipt with a transport, or the call returns
RetryAdvance(op, todo, i) ==
  LET j == NextReceipt(todo, i)
  IN IF j = 0
     THEN [op EXCEPT !.pc = "resolved", !.todo = todo, !.live = FALSE, !.idx = 0]
     ELSE [op EXCEPT !.pc = "prefs", !.todo = todo, !.live = FALSE, !.idx = j,
                     !.prefs = GetPreferences(notif[op.id].userId)]

\* storage.findById(id) returns null
\* a variant that finds every id
NotFound_Never(id) == FALSE

NotFound(id) == id \notin stored

\* the ids callers pass: those of the notifications built so far, and 0, the
\* id of none
KnownIds == (IF config.unknown THEN {0} ELSE {}) \cup (1..Len(notif))

\* retryFailed(notificationId, channel), up to its await of storage.findById
RetryCall(id, channel) ==
  /\ Len(retryOps) < MaxRetries
  /\ retryOps' = Append(retryOps,
       [pc |-> IF NotFound(id) THEN "missing" ELSE "found", id |-> id,
        channel |-> channel, live |-> FALSE, held |-> <<>>, todo |-> <<>>,
        idx |-> 0, invoked |-> <<>>, prefs |-> DefaultPreferences])
  /\ UNCHANGED <<engineVars, now, storeVars, queueVars, sends, passes, runVars,
                 hubVars, published, readOps, reads, callVars>>

\* findById settled: not found throws, otherwise getDeliveryStatus is called
\* (getReceipts returns the stored array object, or a new empty array when
\* the map has none for the id)
RetryFound(j) ==
  /\ retryOps[j].pc \in {"found", "missing"}
  /\ retryOps' = [retryOps EXCEPT ![j] =
       IF @.pc = "missing" THEN [@ EXCEPT !.pc = "rejected"]
       ELSE [@ EXCEPT !.pc = "receipts", !.live = receipts[retryOps[j].id] # <<>>]]
  /\ UNCHANGED <<engineVars, now, storeVars, queueVars, sends, passes, runVars,
                 hubVars, published, readOps, reads, callVars>>

\* getDeliveryStatus settled: the failed receipts are selected and the loop begins
RetryFilter(j) ==
  /\ retryOps[j].pc = "receipts"
  /\ LET op == retryOps[j]
         failed == FailedReceipts(RetryArr(op), op.channel)
         todo == [i \in 1..Len(failed) |-> failed[i].channel]
     IN retryOps' = [retryOps EXCEPT ![j] = RetryAdvance(op, todo, 0)]
  /\ UNCHANGED <<engineVars, now, storeVars, queueVars, sends, passes, runVars,
                 hubVars, published, readOps, reads, callVars>>

\* getPreferences settled: transport.send(notification, prefs) is invoked
RetryInvoke(j) ==
  /\ retryOps[j].pc = "prefs"
  /\ retryOps' = [retryOps EXCEPT ![j].pc = "sending",
                                  ![j].invoked = Append(@, retryOps[j].todo[retryOps[j].idx])]
  /\ UNCHANGED <<engineVars, now, storeVars, queueVars, sends, passes, runVars,
                 hubVars, published, readOps, reads, callVars>>

\* transport.send settled: its receipt is dropped; an exception ends the call
RetrySettle(j, out) ==
  /\ retryOps[j].pc = "sending"
  /\ retryOps' = [retryOps EXCEPT ![j] =
       IF out = "throw" THEN [@ EXCEPT !.pc = "rejected"]
       ELSE RetryAdvance(@, @.todo, @.idx)]
  /\ UNCHANGED <<engineVars, now, storeVars, queueVars, sends, passes, runVars,
                 hubVars, published, readOps, reads, callVars>>

Retrying ==
  \/ \E id \in KnownIds, channel \in {""} \cup config.retryChannels :
       RetryCall(id, channel)
  \/ \E j \in 1..Len(retryOps) : RetryFound(j)
  \/ \E j \in 1..Len(retryOps) : RetryFilter(j)
  \/ \E j \in 1..Len(retryOps) : RetryInvoke(j)
  \/ \E j \in 1..Len(retryOps), out \in config.outcomes : RetrySettle(j, out)

\* ------------------------------------------------------ lifecycle, worker
\* start(): without a queue it only sets isRunning; with one it runs up to its
\* await of queue.start() (MemoryQueueAdapter.start sets the timer that runs
\* processDelayed)
StartCall ==
  /\ ~isRunning
  /\ lifeOps < MaxLifeOps
  /\ lifeOps' = lifeOps + 1
  /\ isRunning' = TRUE
  /\ stopped' = FALSE
  /\ queueTimers' = IF config.queue THEN queueTimers + 1 ELSE queueTimers
  /\ starting' = IF config.queue THEN starting + 1 ELSE starting
  /\ cleanupTimers' = IF ~config.queue /\ config.cleanup THEN cleanupTimers + 1
                      ELSE cleanupTimers
  /\ UNCHANGED <<engineVars, now, storeVars, queue, delayedQueue, sends, passes,
                 workerTimers, workerInterval, ticks, stopping, hubVars, published,
                 apiVars>>

\* queue.start() settled: startWorker() sets the polling timer and stores
\* its handle in this.workerInterval, then startCleanup() sets the sweep timer
StartWorker ==
  /\ starting > 0
  /\ starting' = starting - 1
  /\ workerTimers' = workerTimers + 1
  /\ workerInterval' = TRUE
  /\ cleanupTimers' = IF config.cleanup THEN cleanupTimers + 1 ELSE cleanupTimers
  /\ UNCHANGED <<engineVars, now, storeVars, queueVars, sends, passes, isRunning,
                 ticks, stopping, stopped, lifeOps, hubVars, published, apiVars>>

Min(a, b) == IF a < b THEN a ELSE b

\* MemoryQueueAdapter.dequeueBatch(count): this.queue.splice(0, count) returns
\* the first count items and leaves the rest in the queue
\* a variant that leaves the queue as it was
Remaining_All(q, c) == q

Remaining(q, c) == SubSeq(q, Min(c, Len(q)) + 1, Len(q))
\* a variant that returns nothing
Dequeued_None(q, c) == <<>>

Dequeued(q, c) == SubSeq(q, 1, Min(c, Len(q)))

\* a tick of the polling timer: queue.dequeueBatch(concurrency) is called
WorkerTick ==
  /\ workerTimers > 0
  /\ queue # <<>>
  /\ ticks' = Append(ticks, Dequeued(queue, config.concurrency))
  /\ queue' = Remaining(queue, config.concurrency)
  /\ UNCHANGED <<engineVars, now, storeVars, delayedQueue, queueTimers, sends, passes,
                 isRunning, starting, workerTimers, workerInterval, lifeVars, hubVars,
                 published, apiVars>>

\* dequeueBatch settled: sendNow is called on every notification of the batch
TickResume ==
  /\ ticks # <<>>
  /\ ticks' = Tail(ticks)
  /\ passes' = passes \o [i \in 1..Len(Head(ticks)) |-> NewPass(Head(ticks)[i], 0)]
  /\ UNCHANGED <<engineVars, now, storeVars, queueVars, sends, isRunning, starting,
                 workerTimers, workerInterval, lifeVars, hubVars, published, apiVars>>

\* MemoryQueueAdapter.processDelayed, run by the queue's timer
\* a variant that takes every item for ready
Ready_Always(item) == TRUE

Ready(item) == item.executeAt <= now
ProcessDelayed ==
  /\ queueTimers > 0
  /\ \E i \in 1..Len(delayedQueue) : Ready(delayedQueue[i])
  /\ LET ready == SelectSeq(delayedQueue, Ready)
     IN queue' = queue \o [i \in 1..Len(ready) |-> ready[i].notification]
  /\ delayedQueue' = SelectSeq(delayedQueue, LAMBDA item : ~Ready(item))
  /\ UNCHANGED <<engineVars, now, storeVars, queueTimers, sends, passes, runVars,
                 hubVars, published, apiVars>>

\* time passes
ClockTick ==
  /\ now < MaxClock
  /\ now' = now + 1
  /\ UNCHANGED <<engineVars, storeVars, queueVars, sends, passes, runVars, hubVars,
                 published, apiVars>>

\* clearInterval(this.workerInterval) when the handle is set: the number of
\* live polling timers afterwards
\* a variant that leaves the timer running
Cleared_Not(timers, held) == timers

Cleared(timers, held) == IF held THEN timers - 1 ELSE timers

\* stop(): isRunning is reset, the polling timer whose handle is held is
\* cleared, and queue.stop() (MemoryQueueAdapter.stop clears the timer of
\* processDelayed) is awaited; without a queue stop() returns at once
StopCall ==
  /\ config.stops
  /\ isRunning
  /\ lifeOps < MaxLifeOps
  /\ lifeOps' = lifeOps + 1
  /\ isRunning' = FALSE
  /\ workerTimers' = Cleared(workerTimers, workerInterval)
  /\ workerInterval' = FALSE
  /\ queueTimers' = IF config.queue THEN queueTimers - 1 ELSE queueTimers
  /\ stopping' = IF config.queue THEN stopping + 1 ELSE stopping
  /\ stopped' = IF config.queue THEN stopped ELSE TRUE
  /\ UNCHANGED <<engineVars, now, storeVars, queue, delayedQueue, sends, passes,
                 starting, ticks, cleanupTimers, hubVars, published, apiVars>>

\* queue.stop() settled: stop() returns
StopReturn ==
  /\ stopping > 0
  /\ stopping' = stopping - 1
  /\ stopped' = ~isRunning
  /\ UNCHANGED <<engineVars, now, storeVars, queueVars, sends, passes, isRunning,
                 starting, workerTimers, workerInterval, ticks, lifeOps,
                 cleanupTimers, hubVars, published, apiVars>>

\* MemoryStorageAdapter.deleteExpired: n.expiresAt && n.expiresAt < now
Expired(n) == notif[n].expiresAt # NoDate /\ notif[n].expiresAt < now

\* a tick of the cleanup timer: storage.deleteExpired()
CleanupSweep ==
  /\ cleanupTimers > 0
  /\ \E n \in stored : Expired(n)
  /\ stored' = {n \in stored : ~Expired(n)}
  /\ UNCHANGED <<engineVars, now, notif, receipts, preferences, queueVars, sends,
                 passes, runVars, hubVars, published, apiVars>>

Stopping ==
  \/ StopCall
  \/ StopReturn
  \/ CleanupSweep

Worker ==
  \/ StartCall
  \/ StartWorker
  \/ WorkerTick
  \/ TickResume
  \/ ProcessDelayed
  \/ ClockTick

\* ------------------------------------------------------- specifications
\* Spec: one dispatch through the middleware pipeline, with and without a
\* queue, with collaborators that may reject
SpecConfigs ==
  {[BaseConfig EXCEPT !.queue = q, !.faulty = f, !.mw = m,
                      !.before = BeforeOutcomes, !.hooks = {"ok", "throw"}] :
     q \in BOOLEAN, f \in BOOLEAN, m \in {<<"a", "b">>, <<"c", "a">>}}
Init == InitWith(SpecConfigs)
Next == Dispatch
Spec == Init /\ [][Next]_vars

\* SpecMw: the middleware list changes while dispatches are in flight
MwConfigs ==
  {[BaseConfig EXCEPT !.mw = <<"a", "b">>, !.before = {"same", "changed", "null"},
                      !.outcomes = {"delivered"}, !.registry = {"b"}],
   [BaseConfig EXCEPT !.mw = <<"b", "c", "a">>, !.before = {"changed", "null"},
                      !.outcomes = {"delivered"}]}
  \cup {[BaseConfig EXCEPT !.queue = TRUE, !.faulty = TRUE]}
InitMw == InitWith(MwConfigs)
NextMw == Dispatch \/ Registry
SpecMw == InitMw /\ [][NextMw]_vars

\* SpecDeliver: delivery passes over one to three channels, with a storage
\* that keeps receipts and with one that does not
DeliverConfigs ==
  {[BaseConfig EXCEPT !.transports = {"inapp", "push", "email"},
                      !.channelLists = {<<"push", "email", "inapp">>},
                      !.outcomes = {"delivered", "failed", "throw"},
                      !.saveReceipt = FALSE],
   [BaseConfig EXCEPT !.transports = {"inapp", "push", "email"},
                      !.channelLists = {<<"push", "email">>, <<"sms", "push">>},
                      !.outcomes = {"sent", "delivered", "failed", "throw"}],
   [BaseConfig EXCEPT !.queue = TRUE, !.faulty = TRUE]}
InitDeliver == InitWith(DeliverConfigs)
NextDeliver == Dispatch
SpecDeliver == InitDeliver /\ [][NextDeliver]_vars

\* SpecQueue: immediate and scheduled sends with and without a queue, the
\* queue worker and the clock
QueueConfigs ==
  {[BaseConfig EXCEPT !.schedTimes = {NoDate, 2}, !.hooks = {"ok", "throw"}],
   [BaseConfig EXCEPT !.schedTimes = {NoDate, 2}, !.queue = TRUE]}
InitQueue == InitWith(QueueConfigs)
NextQueue == Dispatch \/ Worker
SpecQueue == InitQueue /\ [][NextQueue]_vars

\* SpecRead: markAsRead and markAllAsRead racing the deliveries of send and of
\* the queue worker
ReadConfigs == QueueConfigs
InitRead == InitWith(ReadConfigs)
NextRead == Dispatch \/ Worker \/ Reading
SpecRead == InitRead /\ [][NextRead]_vars

\* SpecTemplate: sends that name a template while templates are registered,
\* replaced and unregistered, and sends of direct inputs, both with an empty
\* and with a non-empty channels list
Welcome ==
  [id |-> "welcome", type |-> "greeting",
   defaults |-> [title |-> [fn |-> TRUE, text |-> "Welcome "],
                 body |-> [fn |-> FALSE, text |-> "Hello"],
                 channels |-> <<"push", "inapp">>, priority |-> "high",
                 category |-> "onboarding", expiresIn |-> 1]]
WelcomeBare ==
  [id |-> "welcome", type |-> "greeting",
   defaults |-> [title |-> [fn |-> FALSE, text |-> "Welcome"],
                 body |-> [fn |-> TRUE, text |-> "Dear "],
                 channels |-> <<"inapp">>, priority |-> "low",
                 category |-> Undefined, expiresIn |-> 0]]
TemplateInputs ==
  {[PlainInput EXCEPT !.template = "welcome", !.type = Undefined, !.title = Undefined,
                      !.body = Undefined, !.data = "Ann"],
   [PlainInput EXCEPT !.template = "welcome", !.data = "Ann", !.priority = "urgent",
                      !.category = "promo", !.expiresAt = MaxClock],
   [PlainInput EXCEPT !.template = "welcome", !.data = "Ann", !.body = "",
                      !.priority = "urgent"]}
TemplateConfigs ==
  {[BaseConfig EXCEPT !.transports = {"inapp", "push"},
                      !.channelLists = {<<>>, <<"inapp">>},
                      !.outcomes = {"delivered"},
                      !.extras = TemplateInputs,
                      !.templates = {Welcome, WelcomeBare}],
   [BaseConfig EXCEPT !.channelLists = {<<>>, <<"inapp">>}, !.outcomes = {"delivered"}],
   [BaseConfig EXCEPT !.queue = TRUE, !.faulty = TRUE]}
InitTemplate == InitWith(TemplateConfigs)
NextTemplate == Dispatch \/ Templating
SpecTemplate == InitTemplate /\ [][NextTemplate]_vars

\* SpecGate: direct canSend calls (QuietCalls) at every hour of the day with
\* every quiet-hours window, for a channel that is enabled and has no
\* allow-list, and (GateCalls) over preferences with and without global mute, a
\* channel entry, an allow-list and quiet hours, for notifications with and
\* without category
HoursOfDay == 0..23
\* a notification built at time 1 from a direct input with this category
DirectNotification(category) ==
  [type |-> "info", title |-> "Hi", body |-> "Text", userId |-> "u1",
   priority |-> "normal", category |-> category, status |-> "pending",
   createdAt |-> 1, scheduledFor |-> NoDate, expiresAt |-> NoDate,
   channels |-> <<"inapp">>, readAt |-> NoDate, rev |-> 0]
ChannelPrefs(mute, chans, enabled, categories, quietHours) ==
  [globalMute |-> mute,
   channels |-> [c \in chans |-> [enabled |-> enabled, categories |-> categories,
                                  quietHours |-> quietHours]]]
QuietCalls ==
  {[channel |-> "inapp", notification |-> DirectNotification(Undefined),
    prefs |-> ChannelPrefs(FALSE, {"inapp"}, TRUE, <<>>,
                           <<[start |-> <<s, IF (s + e) % 2 = 0 THEN 30 ELSE 0>>,
                              end |-> <<e, IF e % 3 = 0 THEN 0 ELSE 45>>,
                              timezone |-> IF h % 2 = 0 THEN Undefined
                                           ELSE "Asia/Tokyo"]>>),
    hour |-> h] :
     s \in HoursOfDay, e \in HoursOfDay, h \in HoursOfDay}
GateCalls ==
  {[channel |-> "inapp", notification |-> DirectNotification(category),
    prefs |-> prefs, hour |-> h] :
     category \in {Undefined, "", "promo", "news"},
     h \in {2, 10},
     prefs \in {DefaultPreferences}
               \cup {ChannelPrefs(mute, chans, enabled, categories, quietHours) :
                       mute \in BOOLEAN, chans \in {{"inapp"}, {"push"}},
                       enabled \in BOOLEAN,
                       categories \in {<<>>, <<{}>>, <<{"promo"}>>},
                       quietHours \in {<<>>, <<[start |-> <<22, 0>>, end |-> <<6, 0>>,
                                               timezone |-> Undefined]>>}}}
GateConfigs == {[BaseConfig EXCEPT !.gateCalls = {g}] : g \in GateCalls \cup QuietCalls}
InitGate == InitWith(GateConfigs)
NextGate == Gate
SpecGate == InitGate /\ [][NextGate]_vars

\* SpecBatch: sendBatch calls of two inputs for two users beside single sends,
\* with a storage whose save may reject
BatchInput(u) ==
  [userId |-> u, channels |-> <<"inapp">>, scheduledFor |-> NoDate] @@ PlainInput
BatchConfigs ==
  {[BaseConfig EXCEPT !.mw = <<>>, !.faulty = TRUE, !.users = {"u1", "u2"},
                      !.outcomes = {"delivered"}, !.slots = MaxSends + 1,
                      !.batches = {<<BatchInput("u1"), BatchInput("u2")>>,
                                   <<BatchInput("u2"), BatchInput("u1")>>}],
   [BaseConfig EXCEPT !.queue = TRUE, !.faulty = TRUE]}
InitBatch == InitWith(BatchConfigs)
NextBatch == Dispatch \/ Batching
SpecBatch == InitBatch /\ [][NextBatch]_vars

\* SpecSkip: delivery passes over channels with and without transport, for a
\* user who mutes everything or disables the channel inapp
SkipConfigs ==
  {[BaseConfig EXCEPT !.mw = <<>>, !.transports = {"inapp", "push"},
                      !.channelLists = {<<"inapp", "sms">>, <<"sms">>,
                                        <<"inapp", "push">>},
                      !.outcomes = {"delivered"},
                      !.prefs = {[globalMute |-> TRUE],
                                 [channels |-> [c \in {"inapp"} |->
                                                 [enabled |-> FALSE, categories |-> <<>>,
                                                  quietHours |-> <<>>]]]}],
   [BaseConfig EXCEPT !.queue = TRUE, !.faulty = TRUE]}
InitSkip == InitWith(SkipConfigs)
NextSkip == Dispatch \/ Preferring
SpecSkip == InitSkip /\ [][NextSkip]_vars

\* SpecOrder: sends with two afterSend hooks, without a queue while callbacks
\* subscribe to the raw and the lifecycle stream, and with a queue while
\* callbacks subscribe to the lifecycle stream
OrderConfigs ==
  {[BaseConfig EXCEPT !.mw = <<"c", "a">>, !.outcomes = {"delivered"},
                      !.streams = {"raw", "event"}],
   [BaseConfig EXCEPT !.mw = <<"c", "a">>, !.queue = TRUE, !.streams = {"event"}],
   [BaseConfig EXCEPT !.queue = TRUE, !.faulty = TRUE, !.streams = {}]}
InitOrder == InitWith(OrderConfigs)
NextOrder == Dispatch \/ Hub
SpecOrder == InitOrder /\ [][NextOrder]_vars

\* SpecReread: repeated markAsRead / markAllAsRead calls on stored
\* notifications while the clock advances
RereadConfigs ==
  {[BaseConfig EXCEPT !.queue = TRUE, !.mw = <<>>, !.readCalls = MaxReads + 1],
   [BaseConfig EXCEPT !.hooks = {"ok", "throw"}, !.readCalls = 0]}
InitReread == InitWith(RereadConfigs)
NextReread == Dispatch \/ Reading \/ ClockTick
SpecReread == InitReread /\ [][NextReread]_vars

\* SpecHub: subscriptions and the publications of send, markAsRead, markAllAsRead
HubConfigs ==
  {[BaseConfig EXCEPT !.mw = <<>>, !.outcomes = {"delivered"}],
   [BaseConfig EXCEPT !.queue = TRUE, !.faulty = TRUE, !.streams = {}]}
InitHub == InitWith(HubConfigs)
NextHub == Dispatch \/ Reading \/ Hub
SpecHub == InitHub /\ [][NextHub]_vars

\* SpecThrow: subscriber callbacks that may throw: under sends without a
\* queue (raw and lifecycle stream), and, for notifications waiting in a
\* queue, under markAsRead and markAllAsRead (lifecycle stream, unread-count
\* stream) and under delete and deleteAll (unread-count stream)
Subscribing ==
  \E stream \in config.streams, u \in config.users, cb \in Callbacks :
    Subscribe(stream, u, cb)
ThrowConfigs ==
  {[BaseConfig EXCEPT !.cbThrow = TRUE, !.outcomes = {"delivered"},
                      !.streams = {"raw", "event"}, !.readCalls = 0]}
  \cup {[BaseConfig EXCEPT !.cbThrow = TRUE, !.mw = <<>>, !.queue = TRUE,
                           !.streams = {stream}] : stream \in {"event", "unread"}}
  \cup {[BaseConfig EXCEPT !.cbThrow = TRUE, !.mw = <<>>, !.queue = TRUE,
                           !.streams = {"unread"}, !.readCalls = 0, !.deletes = TRUE]}
InitThrow == InitWith(ThrowConfigs)
NextThrow == Dispatch \/ Reading \/ Deleting \/ Subscribing
SpecThrow == InitThrow /\ [][NextThrow]_vars

\* SpecKeys: subscribe and unsubscribe calls of two users on the three streams
KeysConfigs == {[BaseConfig EXCEPT !.users = Users]}
InitKeys == InitWith(KeysConfigs)
NextKeys == Hub
SpecKeys == InitKeys /\ [][NextKeys]_vars

\* SpecMissing: retryFailed on ids that are stored, on ids whose save was
\* rejected and on an id no notification has
MissingConfigs ==
  {[BaseConfig EXCEPT !.mw = <<>>, !.outcomes = {"delivered", "failed"},
                      !.unknown = TRUE],
   [BaseConfig EXCEPT !.queue = TRUE, !.faulty = TRUE, !.unknown = TRUE]}
InitMissing == InitWith(MissingConfigs)
NextMissing == Dispatch \/ Retrying
SpecMissing == InitMissing /\ [][NextMissing]_vars

\* SpecRetry: retryFailed after deliveries over two channels
RetryConfigs ==
  {[BaseConfig EXCEPT !.mw = <<>>, !.transports = {"inapp", "push"},
                      !.channelLists = {<<"inapp", "push">>},
                      !.outcomes = {"delivered", "failed"},
                      !.retryChannels = {"push"}],
   [BaseConfig EXCEPT !.queue = TRUE, !.faulty = TRUE]}
InitRetry == InitWith(RetryConfigs)
NextRetry == Dispatch \/ Retrying
SpecRetry == InitRetry /\ [][NextRetry]_vars

\* unread counts: sends, markAsRead, markAllAsRead, delete and deleteAll for
\* a user whose unread count has subscribers
UnreadConfigs ==
  {[BaseConfig EXCEPT !.streams = {"unread"}, !.outcomes = {"delivered"},
                      !.deletes = TRUE],
   [BaseConfig EXCEPT !.queue = TRUE, !.faulty = TRUE, !.streams = {"unread"},
                      !.readCalls = 0]}
InitUnread == InitWith(UnreadConfigs)
NextUnread == Dispatch \/ Reading \/ Deleting \/ Subscribing
SpecUnread == InitUnread /\ [][NextUnread]_vars

\* lifecycle events: delivery passes run by send and by the queue worker,
\* and markAsRead, for a user with lifecycle-event subscribers
EventsConfigs ==
  {[BaseConfig EXCEPT !.streams = {"event"}, !.outcomes = {"delivered", "failed"},
                      !.hooks = {"ok", "throw"}],
   [BaseConfig EXCEPT !.streams = {"event"}, !.outcomes = {"delivered", "failed"},
                      !.schedTimes = {NoDate, 2}, !.queue = TRUE]}
InitEvents == InitWith(EventsConfigs)
NextEvents == Dispatch \/ Worker \/ Reading \/ Subscribing
SpecEvents == InitEvents /\ [][NextEvents]_vars

\* stop: start() and stop() calls around sends, worker ticks and delivery
\* passes, with a queue and without one, with the cleanup job enabled
StopConfigs ==
  {[BaseConfig EXCEPT !.queue = TRUE, !.stops = TRUE, !.cleanup = TRUE,
                      !.mw = <<>>, !.outcomes = {"delivered"},
                      !.schedTimes = {NoDate, 2}],
   [BaseConfig EXCEPT !.stops = TRUE, !.cleanup = TRUE, !.hooks = {"ok", "throw"},
                      !.outcomes = {"delivered"},
                      !.extras = {[PlainInput EXCEPT !.expiresAt = 1]}]}
InitStop == InitWith(StopConfigs)
NextStop == Dispatch \/ Worker \/ Stopping
SpecStop == InitStop /\ [][NextStop]_vars

\* ticks: two sends through the queue and a worker whose ticks overlap,
\* with concurrency 1 and 2
TicksConfigs ==
  {[BaseConfig EXCEPT !.queue = TRUE, !.concurrency = c, !.slots = 2,
                      !.mw = <<>>, !.outcomes = {"delivered"}] : c \in {1, 2}}
  \cup {[BaseConfig EXCEPT !.queue = TRUE, !.faulty = TRUE, !.schedTimes = {NoDate, 2},
                            !.slots = 2]}
InitTicks == InitWith(TicksConfigs)
NextTicks == Dispatch \/ Worker
SpecTicks == InitTicks /\ [][NextTicks]_vars

\* liveness: sends through the queue, immediate and scheduled, to an engine
\* that is started and never stopped, with storage, queue and transports that
\* never throw; timers keep firing and pending calls settle
LiveConfigs ==
  {[BaseConfig EXCEPT !.queue = TRUE, !.mw = <<>>, !.schedTimes = {NoDate, 2},
                      !.outcomes = {"delivered", "failed"}],
   [BaseConfig EXCEPT !.queue = TRUE, !.hooks = {"ok", "throw"},
                      !.outcomes = {"delivered"}]}
InitLive == InitWith(LiveConfigs)
NextLive == Dispatch \/ Worker
\* setInterval fires its callback again and again (WorkerTick,
\* ProcessDelayed), time passes, and the promises of queue.start,
\* dequeueBatch, getPreferences, transport.send and saveReceipt settle
FairLive ==
  /\ WF_vars(StartWorker) /\ WF_vars(WorkerTick) /\ WF_vars(TickResume)
  /\ WF_vars(ProcessDelayed) /\ WF_vars(ClockTick)
  /\ \A k \in 1..(MaxSends + 1) :
       /\ WF_vars(k <= Len(passes) /\ PassFanOut(k))
       /\ WF_vars(k <= Len(passes) /\ \E i \in 1..Len(passes[k].ch) :
                     \E out \in config.outcomes : ChanSettle(k, i, out))
       /\ WF_vars(k <= Len(passes) /\ PassAggregate(k))
SpecLive == InitLive /\ [][NextLive]_vars /\ FairLive

\* deleted: delete and deleteAll calls around sends through the queue and
\* the worker's delivery passes
DeletedConfigs ==
  {[BaseConfig EXCEPT !.queue = TRUE, !.deletes = TRUE, !.mw = <<>>,
                      !.outcomes = {"delivered"}, !.streams = {}],
   [BaseConfig EXCEPT !.queue = TRUE, !.faulty = TRUE, !.schedTimes = {NoDate, 2}]}
InitDeleted == InitWith(DeletedConfigs)
NextDeleted == Dispatch \/ Worker \/ Deleting
SpecDeleted == InitDeleted /\ [][NextDeleted]_vars

\* mute: preferences change between a send and a retryFailed call
MuteConfigs ==
  {[BaseConfig EXCEPT !.mw = <<>>, !.outcomes = {"delivered", "failed"},
                      !.prefs = {[globalMute |-> TRUE]}],
   [BaseConfig EXCEPT !.queue = TRUE, !.faulty = TRUE]}
InitMute == InitWith(MuteConfigs)
NextMute == Dispatch \/ Retrying \/ Preferring
SpecMute == InitMute /\ [][NextMute]_vars

\* receipts: a storage whose saveReceipt may reject the receipt a transport
\* returned, with two channels per notification
RejectConfigs ==
  {[BaseConfig EXCEPT !.mw = <<>>, !.transports = {"inapp", "push"},
                      !.channelLists = {<<"inapp", "push">>},
                      !.outcomes = {"delivered", "failed", "throw"},
                      !.receiptFaulty = TRUE],
   [BaseConfig EXCEPT !.queue = TRUE, !.faulty = TRUE]}
InitReject == InitWith(RejectConfigs)
NextReject == Dispatch
SpecReject == InitReject /\ [][NextReject]_vars

\* digests: a mute and digest calls for one user, two of them in flight at
\* a time (a DigestConfig is held as its frequency)
DigestConfigs ==
  {[BaseConfig EXCEPT !.prefs = {[globalMute |-> TRUE]},
                      !.digests = {EnableCall("daily"), DisableCall},
                      !.prefCalls = 2]}
InitDigest == InitWith(DigestConfigs)
NextDigest == Preferring \/ Digesting
SpecDigest == InitDigest /\ [][NextDigest]_vars

\* omitted channels: sends that name a template and pass no channels field,
\* next to sends that pass a list, while templates are registered and removed
OmitConfigs ==
  {[BaseConfig EXCEPT !.transports = {"inapp", "push"},
                      !.channelLists = {Omitted, <<"inapp">>},
                      !.outcomes = {"delivered"},
                      !.extras = TemplateInputs,
                      !.templates = {Welcome, WelcomeBare}],
   [BaseConfig EXCEPT !.queue = TRUE, !.faulty = TRUE]}
InitOmit == InitWith(OmitConfigs)
NextOmit == Dispatch \/ Templating
SpecOmit == InitOmit /\ [][NextOmit]_vars

\* ids: scenarios in which Math.random() may yield again a string it has
\* yielded before, with sends made one at a time and in batches while the
\* clock advances
IdsConfigs ==
  {[BaseConfig EXCEPT !.randoms = {1, 2}, !.outcomes = {"delivered"},
                      !.slots = MaxSends + 1,
                      !.batches = {<<BatchInput("u1"), BatchInput("u1")>>}],
   [BaseConfig EXCEPT !.randoms = {1}, !.slots = MaxSends + 1],
   [BaseConfig EXCEPT !.randoms = {1}, !.slots = MaxSends + 1, !.queue = TRUE,
                      !.faulty = TRUE]}
InitIds == InitWith(IdsConfigs)
NextIds == Dispatch \/ Batching \/ ClockTick
SpecIds == InitIds /\ [][NextIds]_vars

\* ======================================================== properties: send
\* the notifications a queue holds
Queued == Range(queue) \cup {delayedQueue[i].notification : i \in 1..Len(delayedQueue)}

\* the stamps of the registered middleware that implement a hook, in order
HookStamps(hook) ==
  LET sel == SelectSeq(middleware, LAMBDA m : hook \in Hooks(m.name))
  IN [i \in 1..Len(sel) |-> sel[i].stamp]

\* C1: when a beforeSend hook returns nothing, send rejects with the filtered
\* failure; storage.save is never called for the notification, nothing is
\* enqueued, no transport is invoked, no afterSend or onError hook runs and no
\* raw-notification or lifecycle event is published.
C1_FilteredAborts ==
  \A p \in 1..MaxSends :
    LET s == sends[p]
    IN (\E i \in 1..Len(s.bs) : s.bs[i].ret = -1) =>
         /\ s.pc = "rejected" /\ s.err = "filtered"
         /\ s.saves = 0 /\ s.n \notin stored
         /\ s.enq = <<>> /\ s.n \notin Queued
         /\ s.pass = 0 /\ \A k \in 1..Len(passes) : passes[k].n # s.n
         /\ receipts[s.n] = <<>>
         /\ s.after = <<>> /\ s.onerr = <<>> /\ s.pub = <<>>

\* the second of two beforeSend hooks filtered a send while afterSend and
\* onError hooks were registered
C1_Witness ==
  \E p \in 1..MaxSends :
    /\ sends[p].err = "filtered"
    /\ Len(sends[p].bs) = 2
    /\ HookStamps("afterSend") # <<>> /\ HookStamps("onError") # <<>>

\* C2: in a send that passes the beforeSend chain the notification is saved,
\* with status pending, before any enqueue or delivery pass for it starts, and
\* it stays persisted when the enqueue or the delivery fails and send rejects.
C2_SavedBeforeDelivery ==
  \A p \in 1..MaxSends :
    LET s == sends[p]
        n == s.n
    IN /\ s.pc = "save" =>
            /\ n \in stored /\ notif[n].status = "pending"
            /\ s.enq = <<>> /\ s.pass = 0 /\ n \notin Queued
            /\ \A k \in 1..Len(passes) : passes[k].n # n
       /\ (n # 0 /\ (s.enq # <<>> \/ s.pass # 0 \/ n \in Queued)) =>
            s.saves = 1 /\ n \in stored
       /\ (s.pc = "rejected"
           /\ s.err \in {"enqueue", "sendNow", "afterSend", "subscriber", "onError"}) =>
            n \in stored

\* the enqueue failed, send rejected, and the notification is still stored
C2_Witness ==
  \E p \in 1..MaxSends :
    /\ sends[p].pc = "rejected" /\ sends[p].err = "enqueue"
    /\ sends[p].n \in stored /\ notif[sends[p].n].status = "pending"

\* C6: when a step of send throws (other than template-not-found and the
\* filtered abort), every registered onError hook runs and the same exception
\* is what the caller receives.
C6_OnErrorAlwaysRuns ==
  \A p \in 1..MaxSends :
    LET s == sends[p]
    IN (s.pc = "rejected" /\ s.err # "filtered") =>
         s.onerr = HookStamps("onError") /\ s.err # "onError"

\* a beforeSend hook threw while an onError hook was registered, and send
\* rejected without running it
C6_Witness ==
  \E p \in 1..MaxSends :
    /\ sends[p].pc = "rejected" /\ sends[p].err = "beforeSend"
    /\ HookStamps("onError") # <<>> /\ sends[p].onerr = <<>>

\* C26: every notification that send persists or hands to a delivery pass
\* has a non-empty channels list, the caller's list when that is non-empty.
C26_NonEmptyChannels ==
  \A p \in DOMAIN sends :
    LET s == sends[p]
    IN (s.n # 0 /\ (s.n \in stored \/ s.pass # 0)) =>
         /\ notif[s.n].channels # <<>>
         /\ s.input.channels # <<>> => notif[s.n].channels = s.input.channels

\* a send of a direct input with an empty channels list resolved: the
\* notification is stored with no channel, its delivery pass attempted
\* nothing and marked it failed
C26_Witness ==
  \E p \in DOMAIN sends :
    /\ sends[p].pc = "resolved" /\ sends[p].input.template = Undefined
    /\ sends[p].n \in stored /\ notif[sends[p].n].channels = <<>>
    /\ notif[sends[p].n].status = "failed" /\ receipts[sends[p].n] = <<>>

\* ==================================================== properties: delivery
\* the aggregation rule as the contract words it
ExpectedStatus(rc) ==
  IF \A i \in 1..Len(rc) : rc[i] \in {"none", "failed"} THEN "failed"
  ELSE IF \E i \in 1..Len(rc) : rc[i] = "delivered" THEN "delivered"
  ELSE "sent"

\* C3: after a delivery pass the status of the notification is failed if every
\* channel produced no receipt or a failed one, otherwise delivered if some
\* receipt is delivered, otherwise sent, and the notification is saved again
\* with that status (delivered/failed/delivered gives delivered; transports
\* that all throw give failed).
C3_AggregatedStatus ==
  \A k \in 1..Len(passes) :
    LET ps == passes[k]
    IN ps.pc \in {"save", "done"} =>
         /\ ps.final = ExpectedStatus(ps.rc)
         /\ notif[ps.n].status = ps.final
         /\ ps.n \in stored
         /\ ps.rc = <<"delivered", "failed", "delivered">> => ps.final = "delivered"
         /\ (ps.threw # {} /\ ps.threw = 1..Len(ps.rc)) => ps.final = "failed"

\* a pass over three channels ended delivered / failed / delivered
C3_Witness ==
  \E k \in 1..Len(passes) :
    /\ passes[k].pc = "done"
    /\ passes[k].rc = <<"delivered", "failed", "delivered">>
    /\ notif[passes[k].n].status = "delivered"

\* the receipts stored for channel c of notification n
ReceiptsOf(n, c) == SelectSeq(receipts[n], LAMBDA r : r.channel = c)

\* C4: without a queue, a transport.send that throws yields exactly one failed
\* receipt with attempts = 1 for its channel (saved when the storage keeps
\* receipts), the other channels are still attempted, and send is never
\* rejected by the delivery, even when every transport throws.
C4_TransportThrowContained ==
  \A k \in 1..Len(passes) :
    LET ps == passes[k]
        chs == notif[ps.n].channels
    IN (ps.owner # 0 /\ ps.pc # "prefs") =>
         /\ \A i \in ps.threw :
              /\ ps.rc[i] = "failed"
              /\ config.saveReceipt =>
                   /\ Len(ReceiptsOf(ps.n, chs[i])) = 1
                   /\ ReceiptsOf(ps.n, chs[i])[1].status = "failed"
                   /\ ReceiptsOf(ps.n, chs[i])[1].attempts = 1
         /\ \A i \in 1..Len(chs) : chs[i] \in config.transports => ps.ch[i] # "skip"
         /\ ps.pc # "rejected"
         /\ sends[ps.owner].err \in {"", "afterSend", "onError"}
         /\ ps.pc = "done" => sends[ps.owner].after # <<>>

\* both transports of a two-channel send threw, both failed receipts are
\* stored, and send resolved
C4_Witness ==
  \E k \in 1..Len(passes) :
    /\ passes[k].owner # 0
    /\ passes[k].threw = {1, 2}
    /\ sends[passes[k].owner].pc = "resolved"
    /\ Len(receipts[passes[k].n]) = 2
    /\ notif[passes[k].n].status = "failed"

\* ==================================================== properties: templates
\* an input field counts as supplied when it is present and not empty
Supplied(v) == v \notin {Undefined, ""}

\* send p is being called with an input that names a registered template
BuildsFromTemplate(p) ==
  /\ sends[p].pc = "idle" /\ sends'[p].pc # "idle"
  /\ sends'[p].input.template \in DOMAIN templates

NamesUnregistered(p) ==
  /\ sends[p].pc = "idle" /\ sends'[p].pc # "idle"
  /\ Supplied(sends'[p].input.template)
  /\ sends'[p].input.template \notin DOMAIN templates

\* C13: a send whose input.template names an unregistered template id (also
\* one unregistered earlier) rejects with the template-not-found error at the
\* call: no beforeSend, afterSend or onError hook runs for it, and nothing is
\* built, persisted, enqueued, delivered or published by it.
C13_TemplateNotFound ==
  [][\A p \in 1..MaxSends :
       /\ NamesUnregistered(p) =>
            /\ sends'[p].pc = "rejected" /\ sends'[p].err = "templateNotFound"
            /\ UNCHANGED <<notif, stored, receipts, queue, delayedQueue, passes,
                           published>>
       /\ sends'[p].err = "templateNotFound" =>
            /\ sends'[p].pc = "rejected" /\ sends'[p].n = 0 /\ sends'[p].pass = 0
            /\ sends'[p].bs = <<>> /\ sends'[p].after = <<>> /\ sends'[p].onerr = <<>>
            /\ sends'[p].saves = 0 /\ sends'[p].enq = <<>> /\ sends'[p].pub = <<>>]_vars

\* a send named the template welcome while no template was registered (never
\* registered, or unregistered again) and middleware with all three hooks
\* was, and it was rejected
C13_Witness ==
  \E p \in 1..MaxSends :
    /\ sends[p].pc = "rejected" /\ sends[p].err = "templateNotFound"
    /\ sends[p].input.template = "welcome"
    /\ \E i \in 1..Len(middleware) :
         Hooks(middleware[i].name) = {"beforeSend", "afterSend", "onError"}
    /\ templates = [id \in {} |-> <<>>]

\* ================================================= properties: order of send
\* the publication of the latest step: the raw-notification callbacks of user
\* u were invoked first and its lifecycle callbacks, with a sent event, next
RawThenSent(u) ==
  /\ Len(published'.events) = 2
  /\ published'.events[1] = Event("raw", "", u, Members(subscribers, u))
  /\ published'.events[2] = Event("event", "sent", u, Members(eventSubscribers, u))

\* C19: in every send the steps occur in this order: storage.save, then the
\* enqueue or the complete delivery pass, then every afterSend hook, then the
\* user's raw-notification subscribers, then the user's lifecycle subscribers
\* with a sent event, and a send resolves only after all of them; with a queue
\* the hooks and the sent event follow the enqueue, and the send starts no
\* delivery pass.
C19_SendOrder ==
  [][\A p \in DOMAIN sends :
       LET s == sends[p]
           t == sends'[p]
           dispatched == IF config.queue
                         THEN /\ Len(t.enq) = 1 /\ s.pc \in {"enq", "after"}
                              /\ t.pass = 0
                              /\ \A k \in 1..Len(passes') : passes'[k].owner # p
                         ELSE /\ t.enq = <<>> /\ t.pass # 0
                              /\ passes'[t.pass].pc = "done"
       IN /\ t.saves # s.saves =>
               /\ s.saves = 0 /\ s.enq = <<>> /\ s.pass = 0
               /\ s.after = <<>> /\ s.pub = <<>>
          /\ (t.enq # s.enq \/ t.pass # s.pass) =>
               /\ s.saves = 1 /\ s.n \in stored /\ s.enq = <<>> /\ s.pass = 0
               /\ s.after = <<>> /\ s.pub = <<>>
          /\ t.after # s.after => (dispatched /\ s.pub = <<>>)
          /\ t.pub # s.pub =>
               /\ dispatched /\ s.pub = <<>>
               /\ t.after = HookStamps("afterSend")
               /\ t.pub \in {<<"raw">>, <<"raw", "sent">>}
               /\ t.pub = <<"raw", "sent">> => RawThenSent(notif[s.n].userId)
          /\ (s.pc # "resolved" /\ t.pc = "resolved") =>
               /\ dispatched /\ t.saves = 1 /\ t.n \in stored
               /\ t.after = HookStamps("afterSend")
               /\ t.pub = <<"raw", "sent">>]_vars

\* with a queue a send resolved after both afterSend hooks and the sent event
\* reached a lifecycle subscriber, while the notification is still pending
\* in the queue
C19_Witness ==
  \E p \in DOMAIN sends :
    /\ config.queue /\ sends[p].pc = "resolved"
    /\ Len(sends[p].after) = 2 /\ sends[p].pub = <<"raw", "sent">>
    /\ Len(published.events) = 2 /\ published.events[2].cbs # <<>>
    /\ published.events[2].type = "sent"
    /\ notif[sends[p].n].status = "pending" /\ sends[p].n \in Queued
    /\ passes = <<>>

\* sequence a is an initial part of sequence b
IsPrefix(a, b) == Len(a) <= Len(b) /\ a = SubSeq(b, 1, Len(a))

\* the failures of send that its catch block handles
CaughtErrors == {"enqueue", "sendNow", "afterSend", "subscriber"}

\* C20: the afterSend chain and the onError chain of a send invoke the hooks
\* of the registered middleware that implement them in registration order, each
\* at most once; a chain in which no hook threw has invoked every one of them:
\* the afterSend chain of a send that went on to publish, and the onError
\* chain of a send rejected with the failure its catch block handled.
C20_FullChains ==
  \A p \in 1..MaxSends :
    LET s == sends[p]
    IN /\ IsPrefix(s.after, HookStamps("afterSend"))
       /\ IsPrefix(s.onerr, HookStamps("onError"))
       /\ (s.pub # <<>> \/ s.pc = "resolved") => s.after = HookStamps("afterSend")
       /\ (s.pc = "rejected" /\ s.err \in CaughtErrors) =>
            s.onerr = HookStamps("onError")

\* the afterSend hooks of c and of a were invoked, one after the other, the
\* second one threw, and the onError hooks of c and of a ran, one after the
\* other, before the send was rejected
C20_Witness ==
  \E p \in 1..MaxSends :
    /\ sends[p].pc = "rejected" /\ sends[p].err = "afterSend"
    /\ Len(sends[p].after) = 2 /\ sends[p].after = HookStamps("afterSend")
    /\ Len(sends[p].onerr) = 2 /\ sends[p].onerr = HookStamps("onError")

\* ==================================================== properties: sendBatch
\* C17: sendBatch(inputs) starts one send per input, in input order. It
\* rejects only with the error of one of its sends that rejected, and the
\* step in which it rejects cancels and rolls back nothing: the other sends,
\* the delivery passes, the queue and the stored notifications are as before,
\* and a notification one of its sends persisted stays in storage. It resolves
\* only when every send has resolved, with their notifications in input order.
C17_BatchRejects ==
  [][\A b \in 1..Len(batches') :
       LET bt == batches'[b]
           member(i) == sends'[bt.members[i]]
       IN /\ Len(bt.members) = Len(bt.inputs)
          /\ \A i \in 1..Len(bt.members) :
               /\ member(i).pc # "idle" /\ member(i).input = bt.inputs[i]
               /\ (b <= Len(batches) /\ sends[bt.members[i]].n \in stored)
                    => member(i).n \in stored'
          /\ bt.pc = "rejected" =>
               \E i \in 1..Len(bt.members) :
                 member(i).pc = "rejected" /\ bt.err = member(i).err
          /\ (b <= Len(batches) /\ batches[b].pc = "pending" /\ bt.pc = "rejected") =>
               UNCHANGED <<sends, passes, notif, stored, receipts, queue, delayedQueue>>
          /\ bt.pc = "resolved" =>
               /\ Len(bt.result) = Len(bt.inputs)
               /\ \A i \in 1..Len(bt.members) :
                    /\ member(i).pc = "resolved" /\ bt.result[i] = member(i).n
                    /\ notif'[bt.result[i]].userId = bt.inputs[i].userId]_vars

\* a batch rejected because the save of its first send failed, while its
\* second send resolved and left its delivered notification in storage
C17_Witness ==
  \E b \in 1..Len(batches) :
    /\ batches[b].pc = "rejected"
    /\ sends[batches[b].members[1]].pc = "rejected"
    /\ batches[b].err = sends[batches[b].members[1]].err
    /\ sends[batches[b].members[2]].pc = "resolved"
    /\ sends[batches[b].members[2]].n \in stored
    /\ notif[sends[batches[b].members[2]].n].status = "delivered"

\* ===================================================== properties: canSend
\* the channel has a preference entry in the preferences of the latest call
HasEntry == gate.channel \in DOMAIN gate.prefs.channels
Entry == gate.prefs.channels[gate.channel]

\* the hour of the latest call lies in the quiet-hours window of the entry
InWindow ==
  LET s == Entry.quietHours[1].start[1]
      e == Entry.quietHours[1].end[1]
      h == gate.hour
  IN \/ (s > e /\ (h >= s \/ h < e))
     \/ (s <= e /\ s <= h /\ h < e)

\* C14: for a channel whose other tests pass, canSend called at hour h with
\* the quiet-hours window s:mm - e:mm denies iff (s > e and (h >= s or h < e))
\* or (s <= e and s <= h < e), whatever the minutes and the timezone are.
C14_QuietHours ==
  (/\ gate # <<>> /\ HasEntry /\ Entry.quietHours # <<>>
   /\ ~gate.prefs.globalMute /\ Entry.enabled
   /\ Entry.categories # <<>> => gate.notification.category \in Entry.categories[1])
  => (~gate.result <=> InWindow)

\* the window 22:30 - 06:00 denied a call at hour 2
C14_Witness ==
  /\ gate # <<>> /\ HasEntry /\ Entry.quietHours # <<>>
  /\ Entry.quietHours[1].start = <<22, 30>>
  /\ Entry.quietHours[1].end = <<6, 0>>
  /\ gate.hour = 2
  /\ ~gate.result

\* C15: canSend returns false whenever the channel's preference entry carries
\* a categories allow-list and the notification's category is absent or is
\* not a member of that list.
C15_AllowList ==
  (gate # <<>> /\ HasEntry /\ Entry.categories # <<>>
   /\ (gate.notification.category = Undefined
       \/ gate.notification.category \notin Entry.categories[1]))
  => ~gate.result

\* a notification without category passed the allow-list {promo} of an
\* enabled channel outside quiet hours
C15_Witness ==
  /\ gate # <<>> /\ HasEntry /\ Entry.categories = <<{"promo"}>>
  /\ gate.notification.category = Undefined
  /\ gate.result

\* C16: canSend returns false whenever preferences.globalMute is true and
\* whenever the channel's preference entry exists with enabled false, and
\* returns true when neither of these holds, no allow-list excludes the
\* notification and the hour is outside the quiet hours, as with the
\* preferences of a user who has stored none.
C16_MuteAndEnabled ==
  gate # <<>> =>
    /\ gate.prefs.globalMute => ~gate.result
    /\ (HasEntry /\ ~Entry.enabled) => ~gate.result
    /\ (/\ ~gate.prefs.globalMute
        /\ HasEntry => /\ Entry.enabled
                       /\ Entry.categories # <<>> =>
                            gate.notification.category \in Entry.categories[1]
                       /\ Entry.quietHours # <<>> => ~InWindow)
       => gate.result
    /\ gate.prefs = DefaultPreferences => gate.result

\* a call for a channel whose entry is disabled, without global mute, allow-list
\* or quiet hours, was denied
C16_Witness ==
  /\ gate # <<>> /\ HasEntry /\ ~gate.prefs.globalMute
  /\ ~Entry.enabled /\ Entry.categories = <<>> /\ Entry.quietHours = <<>>
  /\ ~gate.result

\* channel i of pass ps has no transport, or the preferences the pass read
\* mute the user or disable the channel, or canSend denies for another reason
Gated(ps, i) ==
  LET c == notif[ps.n].channels[i]
  IN \/ c \notin config.transports
     \/ ps.prefs.globalMute
     \/ (c \in DOMAIN ps.prefs.channels /\ ~ps.prefs.channels[c].enabled)
     \/ ~CanSend(c, notif[ps.n], ps.prefs, config.hour)

\* C18: in a delivery pass a channel without transport, or whose canSend
\* returns false, is skipped: transport.send is not invoked for it and no
\* receipt is produced or saved for it, while every other channel is
\* attempted; a pass over a non-empty channel list whose channels are all
\* skipped persists the notification with status failed and no receipt.
C18_SkippedChannels ==
  \A k \in 1..Len(passes) :
    LET ps == passes[k]
        chs == notif[ps.n].channels
    IN ps.pc # "prefs" =>
         /\ \A i \in 1..Len(chs) :
              IF Gated(ps, i)
              THEN /\ ps.ch[i] = "skip" /\ ps.rc[i] = "none" /\ i \notin ps.threw
                   /\ ReceiptsOf(ps.n, chs[i]) = <<>>
              ELSE ps.ch[i] \in {"wait", "done"}
         /\ (/\ chs # <<>> /\ \A i \in 1..Len(chs) : Gated(ps, i)
             /\ ps.pc \in {"save", "done"})
            => /\ ps.final = "failed" /\ notif[ps.n].status = "failed"
               /\ ps.n \in stored /\ receipts[ps.n] = <<>>

\* a pass over inapp and push for a user who muted everything ended: nothing
\* was attempted, no receipt exists and the stored notification is failed
C18_Witness ==
  \E k \in 1..Len(passes) :
    /\ passes[k].pc = "done" /\ passes[k].prefs.globalMute
    /\ notif[passes[k].n].channels = <<"inapp", "push">>
    /\ passes[k].ch = <<"skip", "skip">>
    /\ receipts[passes[k].n] = <<>>
    /\ passes[k].n \in stored /\ notif[passes[k].n].status = "failed"

\* ================================================= properties: queue, reads
\* C5: once a stored notification has status read, no engine operation
\* changes its status to anything else.
C5_ReadIsFinal ==
  [][\A n \in 1..Len(notif) :
       (n \in stored /\ notif[n].status = "read") => notif'[n].status = "read"]_vars

\* a notification that was marked read carries a delivery status again
C5_Witness ==
  \E n \in 1..Len(notif) :
    /\ n \in stored /\ notif[n].readAt # NoDate
    /\ notif[n].status \in {"delivered", "failed"}

\* this step is a markAsRead(n) call
MarkAsReadStep(n) ==
  /\ reads' = reads + 1
  /\ readOps' = Append(readOps, [pc |-> "marked", id |-> n, user |-> "", count |-> 0])

\* C11 as stated: markAsRead(id) is idempotent: a markAsRead call on a stored
\* notification that an earlier call already marked read leaves its status
\* read and does not change the readAt value the earlier call set.
C11_MarkAsReadIdempotent ==
  [][\A n \in 1..Len(notif) :
       (/\ n \in stored /\ notif[n].status = "read" /\ notif[n].readAt # NoDate
        /\ MarkAsReadStep(n))
       => (notif'[n].status = "read" /\ notif'[n].readAt = notif[n].readAt)]_vars

\* C11: every markAsRead(id) call on a stored notification, the first and
\* any later one, leaves its status read and sets readAt to the time of
\* that call.
C11_MarkAsReadRefreshes ==
  [][\A n \in 1..Len(notif) :
       (n \in stored /\ MarkAsReadStep(n))
       => (notif'[n].status = "read" /\ notif'[n].readAt = now)]_vars

\* two markAsRead calls were made on one stored notification, the second one
\* at a later time than the delivery that preceded the first
C11_Witness ==
  \E i, j \in 1..Len(readOps) :
    /\ i < j /\ readOps[i].pc = "marked" /\ readOps[j].pc = "marked"
    /\ readOps[i].id = readOps[j].id /\ readOps[i].id \in stored
    /\ notif[readOps[i].id].status = "read" /\ notif[readOps[i].id].readAt = MaxClock

\* C7: with a queue, send performs exactly one enqueue operation
\* (enqueueDelayed, with delay scheduledFor - now, iff scheduledFor is set) and
\* runs no delivery pass itself; without a queue, send runs the delivery pass
\* to completion before it goes on, whatever scheduledFor is.
C7_DeliveryPath ==
  \A p \in 1..MaxSends :
    LET s == sends[p]
        n == s.n
    IN n # 0 =>
         /\ config.queue =>
              /\ s.pass = 0 /\ \A k \in 1..Len(passes) : passes[k].owner # p
              /\ Len(s.enq) <= 1
              /\ (s.after # <<>> \/ s.pc \in {"enq", "resolved"}) =>
                   s.enq = << IF notif[n].scheduledFor # NoDate
                              THEN "enqueueDelayed" ELSE "enqueue" >>
              /\ \A i \in 1..Len(delayedQueue) :
                   delayedQueue[i].executeAt
                     = notif[delayedQueue[i].notification].scheduledFor
         /\ ~config.queue =>
              /\ s.enq = <<>> /\ n \notin Queued
              /\ (s.after # <<>> \/ s.pc = "resolved") =>
                   /\ s.pass # 0
                   /\ passes[s.pass].n = n /\ passes[s.pass].pc = "done"
                   /\ notif[n].status # "pending"

\* without a queue a send scheduled for a later time resolved after its
\* delivery pass, before that time
C7_Witness ==
  \E p \in 1..MaxSends :
    /\ ~config.queue /\ sends[p].pc = "resolved"
    /\ notif[sends[p].n].scheduledFor > now
    /\ passes[sends[p].pass].pc = "done"

\* ================================================== properties: middleware
\* C8: beforeSend hooks run strictly in registration order, each receiving
\* what the previous one returned; a hook that returns nothing ends the chain;
\* a chain that ran to its end has invoked every beforeSend hook that was
\* registered at construction and is still registered.
C8_BeforeSendOrder ==
  \A p \in 1..MaxSends :
    LET s == sends[p]
        called == {s.bs[i].stamp : i \in 1..Len(s.bs)}
    IN /\ \A i \in 1..Len(s.bs) :
            IF i = 1 THEN s.bs[i].arg = 0
            ELSE /\ s.bs[i].stamp > s.bs[i - 1].stamp
                 /\ s.bs[i].arg = s.bs[i - 1].ret
                 /\ s.bs[i - 1].ret # -1
       /\ (s.pc \notin {"idle", "before"} /\ s.err # "filtered") =>
            \A j \in 1..Len(middleware) :
              ("beforeSend" \in Hooks(middleware[j].name)
               /\ middleware[j].stamp <= Len(config.mw)) =>
                 middleware[j].stamp \in called

\* the second hook received the notification the first one had transformed
C8_Witness ==
  \E p \in 1..MaxSends :
    /\ Len(sends[p].bs) = 2
    /\ sends[p].bs[1].ret = sends[p].bs[1].stamp
    /\ sends[p].bs[2].arg = sends[p].bs[1].stamp
    /\ sends[p].pc = "resolved"

\* the stamps of the entries of the list snap that implement a hook, in order
SnapStamps(snap, hook) ==
  LET sel == SelectSeq(snap, LAMBDA m : hook \in Hooks(m.name))
  IN [i \in 1..Len(sel) |-> sel[i].stamp]

\* C21: a send in flight runs the hooks of the middleware list as it was when
\* the send was called: use and removeMiddleware calls made while it is
\* suspended change none of the beforeSend, afterSend and onError hooks it
\* runs.
C21_OwnSnapshot ==
  \A p \in DOMAIN sends :
    LET s == sends[p]
        ran == [i \in 1..Len(s.bs) |-> s.bs[i].stamp]
    IN /\ IsPrefix(ran, SnapStamps(s.snap, "beforeSend"))
       /\ IsPrefix(s.after, SnapStamps(s.snap, "afterSend"))
       /\ IsPrefix(s.onerr, SnapStamps(s.snap, "onError"))
       /\ s.pc = "resolved" =>
            /\ ran = SnapStamps(s.snap, "beforeSend")
            /\ s.after = SnapStamps(s.snap, "afterSend")

\* a send resolved without running an afterSend hook that was registered when
\* it was called and was removed while its delivery was in flight
C21_Witness ==
  \E p \in DOMAIN sends :
    /\ sends[p].pc = "resolved"
    /\ Len(sends[p].after) < Len(SnapStamps(sends[p].snap, "afterSend"))

\* a send resolved after running a beforeSend hook that use() registered
\* while the send was suspended in an earlier hook
C21_WitnessPushed ==
  \E p \in DOMAIN sends :
    /\ sends[p].pc = "resolved"
    /\ \E i \in 1..Len(sends[p].bs) :
         sends[p].bs[i].stamp \notin Range(SnapStamps(sends[p].snap, "beforeSend"))

\* ======================================================= properties: retry
\* this step is the settling of a transport.send that retry call j invoked
RetrySettleStep(j) ==
  /\ j <= Len(retryOps) /\ retryOps[j].pc = "sending"
  /\ retryOps'[j].pc # "sending"

\* this step is the retryFailed(id) call that becomes retry call j
RetryCallStep(j, id) ==
  /\ Len(retryOps) = j - 1 /\ Len(retryOps') = j
  /\ retryOps'[j].id = id

\* C25: retryFailed on an id that is not in storage rejects with the
\* not-found error: it goes on to no receipt lookup and invokes no transport,
\* and no stored notification, receipt or preference changes by it.
C25_RetryNotFound ==
  [][\A j \in 1..MaxRetries :
       /\ \A id \in KnownIds :
            (RetryCallStep(j, id) /\ id \notin stored) => retryOps'[j].pc = "missing"
       /\ (j <= Len(retryOps) /\ retryOps[j].pc = "missing"
           /\ retryOps'[j] # retryOps[j]) =>
            /\ retryOps'[j] = [retryOps[j] EXCEPT !.pc = "rejected"]
            /\ retryOps[j].invoked = <<>>
            /\ UNCHANGED storeVars
       /\ (j <= Len(retryOps) /\ retryOps[j].pc = "rejected") =>
            retryOps'[j] = retryOps[j]]_vars

\* retryFailed on the id of no notification rejected without invoking a
\* transport, while a stored notification has a failed receipt
C25_Witness ==
  \E j \in 1..Len(retryOps) :
    /\ retryOps[j].pc = "rejected" /\ retryOps[j].id = 0
    /\ retryOps[j].invoked = <<>>
    /\ \E n \in stored : \E k \in 1..Len(receipts[n]) : receipts[n][k].status = "failed"

\* this step is the settling of the transport.send of channel i of pass k
ChanSettleStep(k, i) ==
  /\ k <= Len(passes) /\ passes[k].pc = "chan" /\ i <= Len(passes[k].ch)
  /\ passes[k].ch[i] = "wait" /\ passes'[k].ch[i] = "done"

\* the receipts stored for notification n grow in this step by one receipt
\* of channel c
AppendsReceipt(n, c) ==
  /\ Len(receipts'[n]) = Len(receipts[n]) + 1
  /\ receipts'[n][Len(receipts'[n])].channel = c

\* C24: stored receipts are append-only: no step changes or removes a
\* stored receipt, and every delivery attempt (every transport.send of a
\* delivery pass and every transport.send of retryFailed) adds one receipt
\* for its notification and channel.
C24_AppendOnly ==
  [][/\ \A n \in 1..Len(receipts) : IsPrefix(receipts[n], receipts'[n])
     /\ \A k \in 1..Len(passes) : \A i \in 1..Len(passes[k].ch) :
          ChanSettleStep(k, i) =>
            AppendsReceipt(passes[k].n, notif[passes[k].n].channels[i])
     /\ \A j \in 1..Len(retryOps) :
          RetrySettleStep(j) =>
            AppendsReceipt(retryOps[j].id, retryOps[j].todo[retryOps[j].idx])]_vars

\* retryFailed resolved after a transport.send for the failed channel, and
\* the notification has the two receipts of its delivery pass and no other
C24_Witness ==
  \E j \in 1..Len(retryOps) :
    /\ retryOps[j].pc = "resolved" /\ retryOps[j].invoked # <<>>
    /\ Len(receipts[retryOps[j].id]) = Len(notif[retryOps[j].id].channels)

\* C10: retryFailed(id, channel) invokes transport.send only for channels that
\* have a stored failed receipt and match the channel argument (every channel
\* when it is omitted), and never for a channel whose most recent receipt is
\* delivered.
C10_RetryOnlyFailed ==
  \A j \in 1..Len(retryOps) :
    LET op == retryOps[j]
    IN \A i \in 1..Len(op.invoked) :
         LET c == op.invoked[i]
             rs == ReceiptsOf(op.id, c)
         IN /\ op.channel = "" \/ c = op.channel
            /\ \E k \in 1..Len(rs) : rs[k].status = "failed"
            /\ rs[Len(rs)].status # "delivered"

\* retryFailed(id) without a channel retried the failed channel only, while
\* the other channel of the notification had been delivered
C10_Witness ==
  \E j \in 1..Len(retryOps) :
    LET op == retryOps[j]
    IN /\ op.pc = "resolved" /\ op.channel = ""
       /\ op.invoked = <<"push">>
       /\ \E k \in 1..Len(receipts[op.id]) :
            receipts[op.id][k].channel = "inapp" /\ receipts[op.id][k].status = "delivered"

\* =============================================== properties: subscriptions
\* C23: none of the three subscription maps ever holds a user key with an
\* empty callback set: a user key is present in a map exactly when at least
\* one callback is subscribed for that user on that stream (and every
\* callback in a set was subscribed through a subscribe call, once).
C23_NoEmptySets ==
  \A stream \in Streams, u \in Users :
    LET subs == Members(MapOf(stream), u)
    IN /\ u \in DOMAIN MapOf(stream) <=> subs # <<>>
       /\ \A i \in 1..Len(subs) :
            /\ handles[<<stream, u, subs[i]>>] # <<>>
            /\ \A k \in 1..Len(subs) : subs[k] = subs[i] => k = i

\* a user's only callback on a stream was unsubscribed and the user's key is
\* gone from that map, while the map still holds the key of the other user
C23_Witness ==
  \E key \in Keys :
    /\ handles[key] = <<1>>
    /\ key[2] \notin DOMAIN MapOf(key[1])
    /\ DOMAIN MapOf(key[1]) # {}

\* this step is a publication in which a callback throws
ThrowStep == published' # published /\ published'.threw # 0

\* the publication of this step ended with the callback that threw: the
\* callbacks registered after it were not invoked, and no further event was
\* published
CutShort ==
  LET e == published'.events[Len(published'.events)]
      subs == Members(MapOf(e.stream), e.user)
  IN /\ published'.threw <= Len(subs)
     /\ e.cbs = SubSeq(subs, 1, published'.threw)
     /\ e.stream = "raw" => Len(published'.events) = 1

\* the operation that published in this step has the exception: a send is in
\* its catch block or rejected with it, a markAsRead, markAllAsRead, delete or
\* deleteAll call is rejected
Propagated ==
  \/ \E p \in DOMAIN sends :
       /\ sends[p].pc \notin {"idle", "error", "rejected", "resolved"}
       /\ sends'[p].pc \in {"error", "rejected"} /\ sends'[p].err = "subscriber"
       /\ UNCHANGED readOps
  \/ \E j \in 1..Len(readOps) :
       /\ readOps[j].pc \in {"found", "count"}
       /\ readOps' = [readOps EXCEPT ![j].pc = "rejected"]
       /\ UNCHANGED sends

\* a send that a subscriber made fail ends rejected with that exception, and
\* a rejected operation takes no further step
Rejected ==
  /\ \A p \in DOMAIN sends :
       /\ sends[p].err = "subscriber" =>
            /\ sends'[p].err = "subscriber"
            /\ sends'[p].pc \in {"error", "rejected"}
            /\ sends[p].after = HookStamps("afterSend")
            /\ ~config.deletes => sends[p].n \in stored
            /\ ~config.queue =>
                 /\ receipts[sends[p].n] # <<>>
                 /\ notif[sends[p].n].status = "delivered"
       /\ sends[p].pc = "rejected" => sends'[p] = sends[p]
  /\ \A j \in 1..Len(readOps) :
       readOps[j].pc = "rejected" => readOps[j] \in Range(readOps')

\* C22: when a subscriber callback throws during a publication, the callbacks
\* registered after it are not invoked for that event, the operation that
\* published (send, markAsRead, markAllAsRead, delete, deleteAll) rejects
\* with the exception, and what the operation had stored, marked or deleted
\* before stays as it is.
C22_CallbackThrows ==
  [][(ThrowStep => (CutShort /\ Propagated /\ UNCHANGED storeVars)) /\ Rejected]_vars

\* the first of two callbacks subscribed to a user's lifecycle events threw
\* on the sent event: the second was not invoked, and send rejected with the
\* notification stored as delivered and its receipt kept
C22_Witness ==
  \E p \in DOMAIN sends :
    /\ sends[p].pc = "rejected" /\ sends[p].err = "subscriber"
    /\ published.threw = 1 /\ Len(published.events) = 2
    /\ published.events[2].cbs = <<"f">>
    /\ Members(eventSubscribers, notif[sends[p].n].userId) = <<"f", "g">>
    /\ sends[p].n \in stored /\ notif[sends[p].n].status = "delivered"
    /\ Len(receipts[sends[p].n]) = 1

\* the callback subscribed to a user's unread count threw when delete
\* announced the count: delete rejected and the notification stays deleted
C22_WitnessDelete ==
  \E j \in 1..Len(readOps) :
    /\ readOps[j].pc = "rejected" /\ "op" \in DOMAIN readOps[j]
    /\ readOps[j].id # 0
    /\ published.events[1].stream = "unread"
    /\ readOps[j].id \notin stored /\ notif[readOps[j].id].status # "read"

\* the callbacks subscribed for key = <<stream, userId, callback>>
SubscribedTo(key) == Range(Members(MapOf(key[1]), key[2]))

\* this step is a call of the i-th unsubscribe function issued for key
UnsubscribeStep(key, i) ==
  /\ i <= Len(handles[key]) /\ Len(handles'[key]) = Len(handles[key])
  /\ handles'[key][i] = handles[key][i] + 1

\* a publication invokes exactly the callbacks subscribed for the user on the
\* stream, and each of them has an unsubscribe function that was never called
PublicationStep ==
  published' # published =>
    \A j \in 1..Len(published'.events) :
      LET e == published'.events[j]
      IN /\ e.cbs = Members(MapOf(e.stream), e.user)
         /\ \A cb \in Range(e.cbs) :
              \E i \in 1..Len(handles[<<e.stream, e.user, cb>>]) :
                handles[<<e.stream, e.user, cb>>][i] = 0

\* a call of an unsubscribe function leaves its callback unsubscribed and every
\* other subscription, of the same stream and of the other streams, as it was
UnsubscribeEffect ==
  \A key \in Keys : \A i \in 1..Len(handles[key]) :
    UnsubscribeStep(key, i) =>
      /\ key[3] \notin SubscribedTo(key)'
      /\ \A other \in Keys \ {key} :
           (other[3] \in SubscribedTo(other)') <=> (other[3] \in SubscribedTo(other))

\* C9 as stated: a second call of the same unsubscribe function changes nothing
RepeatedUnsubscribeIdle ==
  \A key \in Keys : \A i \in 1..Len(handles[key]) :
    (UnsubscribeStep(key, i) /\ handles[key][i] >= 1) =>
      UNCHANGED <<subscribers, eventSubscribers, unreadSubscribers>>

\* a second call changes nothing unless the callback was subscribed again for
\* the same user and stream after the function was issued; then it removes
\* that subscription
RepeatedUnsubscribeStale ==
  \A key \in Keys : \A i \in 1..Len(handles[key]) :
    (UnsubscribeStep(key, i) /\ handles[key][i] >= 1) =>
      IF Len(handles[key]) = i
      THEN UNCHANGED <<subscribers, eventSubscribers, unreadSubscribers>>
      ELSE key[3] \notin SubscribedTo(key)'

\* C9 (as the code has it): after an unsubscribe function has been called its
\* callback is not invoked for later events of the stream unless it is
\* subscribed again, every other subscribed callback of the stream and of the
\* other streams is still invoked, and calling the function again changes
\* nothing unless the callback has been subscribed again for that user and
\* stream in the meantime, in which case the call removes that subscription.
C9_UnsubscribeStale ==
  [][PublicationStep /\ UnsubscribeEffect /\ RepeatedUnsubscribeStale]_vars

\* C9 (as stated): ... calling the same unsubscribe function again changes
\* nothing.
C9_UnsubscribeIdempotent ==
  [][PublicationStep /\ UnsubscribeEffect /\ RepeatedUnsubscribeIdle]_vars

\* callback f was subscribed twice for a user and stream, the first unsubscribe
\* function was called twice and the second never, and an event of the stream
\* for that user reached no callback
C9_Witness ==
  \E j \in 1..Len(published.events) :
    LET e == published.events[j]
        key == <<e.stream, e.user, "f">>
    IN /\ handles[key] = <<2, 0>>
       /\ "f" \notin SubscribedTo(key)
       /\ e.cbs = <<>>

\* ========================================================= properties: ids
\* C27: any two notifications built by distinct send calls on one engine,
\* those of one sendBatch included, have different ids, so that the
\* storage.save of one never replaces the stored copy of another
C27_UniqueIds ==
  \A m, n \in 1..Len(notif) : m # n => notif[m].id # notif[n].id

\* two sends built notifications with one id in the same millisecond: the
\* first had been saved and its send has resolved, and the save of the second
\* has taken its place in storage
C27_Witness ==
  \E p, q \in DOMAIN sends :
    /\ p # q /\ sends[p].n # 0 /\ sends[q].n # 0
    /\ notif[sends[p].n].id = notif[sends[q].n].id
    /\ sends[p].pc = "resolved" /\ sends[p].saves = 1
    /\ sends[p].n \notin stored /\ sends[q].n \in stored

\* sends made in different milliseconds build different ids
C27_DistinctAcrossTime ==
  \A m, n \in 1..Len(notif) :
    notif[m].createdAt # notif[n].createdAt => notif[m].id # notif[n].id


\* ========================================== properties: omitted channels
\* C28: send with a registered template and an input that has no channels
\* field, as in send({template, userId, data}), builds and resolves with a
\* notification whose channels are the template's default channels
C28_OmittedChannels ==
  [][\A p \in 1..MaxSends :
       (BuildsFromTemplate(p) /\ sends'[p].input.channels = Omitted) =>
         /\ sends'[p].pc # "rejected" /\ sends'[p].n # 0
         /\ notif'[sends'[p].n].channels =
              templates[sends'[p].input.template].defaults.channels]_vars

\* a send that named the registered template welcome and passed no channels
\* was rejected with a TypeError: no notification was built or stored, and
\* no hook ran
C28_Witness ==
  \E p \in 1..MaxSends :
    /\ sends[p].pc = "rejected" /\ sends[p].err = "typeError"
    /\ sends[p].input.template \in DOMAIN templates
    /\ sends[p].input.channels = Omitted
    /\ sends[p].n = 0 /\ notif = <<>> /\ stored = {}
    /\ sends[p].bs = <<>> /\ sends[p].onerr = <<>>


\* ================================================ properties: unread count
\* send p resolves on this step, its notification stored and not read
ResolvesUnread(p) ==
  /\ sends[p].pc # "resolved" /\ sends'[p].pc = "resolved"
  /\ sends[p].n \in stored /\ notif[sends[p].n].status # "read"

\* operation j of markAsRead, markAllAsRead, delete or deleteAll notifies the
\* unread-count subscribers on this step
UnreadStep(j) ==
  /\ j \in DOMAIN readOps /\ readOps[j].pc = "count"
  /\ readOps' # readOps /\ published'.seq # published.seq
  /\ published'.events[1].stream = "unread"
  /\ published'.events[1].user = readOps[j].user

\* the count an operation passes to the unread-count subscribers is
\* storage's countUnread of the user at that moment
CountAccurate ==
  \A j \in 1..(MaxReads + MaxDeletes) :
    UnreadStep(j) => published'.events[1].type = CountUnread(readOps[j].user)

\* C29: whenever send, markAsRead, markAllAsRead, delete or deleteAll changes
\* a user's unread count, the user's onUnreadCountChange subscribers are
\* invoked before the operation resolves, with the count storage's
\* countUnread gives for the user at that moment
C29_UnreadCountPublished ==
  [][/\ \A p \in DOMAIN sends :
          ResolvesUnread(p) =>
            \E i \in 1..Len(sends'[p].pub) : sends'[p].pub[i] = "unread"
     /\ CountAccurate]_vars

\* a send for a user whose unread count has a subscriber resolved: the
\* user's unread count is 1 and no count has been published to anyone
C29_Witness ==
  \E p \in DOMAIN sends :
    /\ sends[p].pc = "resolved" /\ sends[p].n \in stored
    /\ notif[sends[p].n].status # "read"
    /\ Members(unreadSubscribers, notif[sends[p].n].userId) # <<>>
    /\ CountUnread(notif[sends[p].n].userId) = 1
    /\ sends[p].pub = <<"raw", "sent">>
    /\ \A i \in 1..Len(published.events) : published.events[i].stream # "unread"

\* markAllAsRead and deleteAll pass the literal 0
C29_CountAccurate == [][CountAccurate]_vars


\* ============================================ properties: lifecycle events
\* publication pub holds a lifecycle event of the given type for user u
HoldsEvent(pub, type, u) ==
  \E i \in 1..Len(pub.events) :
    /\ pub.events[i].stream = "event" /\ pub.events[i].type = type
    /\ pub.events[i].user = u

\* delivery pass k ends on this step, having set and saved the status
\* delivered or failed
PassEnds(k) ==
  /\ k \in DOMAIN passes /\ passes[k].pc = "save" /\ passes'[k].pc = "done"
  /\ passes[k].final \in {"delivered", "failed"}

\* markAsRead j goes on after findById gave it the notification it marked
ReadFound(j) ==
  /\ j \in DOMAIN readOps /\ readOps[j].pc = "found"
  /\ Len(readOps') = Len(readOps) /\ readOps'[j].pc # "found"
  /\ \A i \in DOMAIN readOps : i # j => readOps'[i] = readOps[i]

\* C30: every status change the engine makes to a notification is
\* republished to the user's lifecycle-event subscribers as an event of the
\* matching type: a delivery pass that sets delivered publishes 'delivered',
\* one that sets failed publishes 'failed', also when the queue worker runs
\* the pass, and markAsRead publishes 'read'
C30_StatusRepublished ==
  [][/\ \A k \in 1..Len(passes) :
          PassEnds(k) =>
            HoldsEvent(published', passes[k].final, notif[passes[k].n].userId)
     /\ \A j \in 1..Len(readOps) :
          ReadFound(j) => HoldsEvent(published', "read", readOps[j].user)]_vars

\* the queue worker's delivery pass set a notification delivered and saved
\* it, for a user with a lifecycle-event subscriber, and the engine has
\* published nothing since the 'sent' event of the send
C30_Witness ==
  \E k \in 1..Len(passes) :
    /\ passes[k].owner = 0 /\ passes[k].pc = "done"
    /\ passes[k].final = "delivered" /\ notif[passes[k].n].status = "delivered"
    /\ passes[k].n \in stored
    /\ Members(eventSubscribers, notif[passes[k].n].userId) # <<>>
    /\ \A i \in 1..Len(published.events) :
         published.events[i].stream = "event" => published.events[i].type = "sent"

\* the part of C30 that is about markAsRead
C30_ReadPublished ==
  [][\A j \in 1..Len(readOps) :
       ReadFound(j) => HoldsEvent(published', "read", readOps[j].user)]_vars


\* ==================================================== properties: stop
\* stop() is called on this step / a stop() call returns on this step
StopStep == isRunning /\ ~isRunning'
StopResolves == stopped' /\ ~stopped

\* a delivery pass of the worker that has not yet called its transports
Undelivered(k) ==
  passes[k].owner = 0 /\ passes[k].pc = "prefs"

\* C31: stop() only clears the worker timer and stops the queue; it resolves
\* without waiting for deliveries begun by an earlier worker tick, so
\* transport sends, receipt saves and the status save of a notification
\* dequeued before stop() can still occur after stop() has resolved
C31_StopDoesNotWait ==
  [][/\ StopStep =>
          /\ workerTimers' = IF workerInterval THEN workerTimers - 1 ELSE workerTimers
          /\ ~workerInterval'
          /\ config.queue => queueTimers' = queueTimers - 1
          /\ UNCHANGED <<passes, ticks, queue, delayedQueue, storeVars, sends>>
     /\ StopResolves =>
          /\ UNCHANGED <<passes, ticks, queue, delayedQueue, storeVars, sends,
                         workerTimers, queueTimers>>
          /\ \A k \in 1..Len(passes) : passes'[k].pc = passes[k].pc]_vars

\* stop() has resolved while a batch dequeued earlier is still waiting for
\* dequeueBatch to settle, or its delivery pass is still loading the
\* preferences and its notification is still stored as pending
C31_Witness ==
  /\ stopped /\ workerTimers = 0
  /\ \/ ticks # <<>>
     \/ \E k \in 1..Len(passes) :
          /\ Undelivered(k) /\ notif[passes[k].n].status = "pending"
          /\ receipts[passes[k].n] = <<>>


\* a tick of the polling timer dequeues on this step
TickStep == Len(ticks') > Len(ticks)

\* C32: the queue worker loop runs only while the engine is running: for
\* every interleaving of start() and stop() calls, stop() called while
\* start() still awaits queue.start() included, at most one worker timer is
\* active at any time, and once a stop() has resolved no worker tick dequeues
\* from the queue until start() is called again
C32_WorkerOnlyWhileRunning ==
  [][/\ workerTimers' <= 1
     /\ ~(stopped /\ TickStep)]_vars

\* stop() was called while start() awaited queue.start() and has resolved;
\* start() then went on to set the polling timer, which is live with the
\* engine stopped and a notification waiting in the queue
C32_Witness ==
  /\ stopped /\ ~isRunning /\ stopping = 0 /\ starting = 0
  /\ workerTimers = 1 /\ workerInterval /\ queueTimers = 0
  /\ queue # <<>>

\* after a further start() two polling timers are live
C32_WitnessTwoTimers == workerTimers = 2 /\ isRunning /\ lifeOps = 3


\* the cleanup sweep deletes expired notifications on this step
SweepStep == \E n \in stored : Expired(n) /\ n \notin stored'

\* C33: stopping the engine clears its timers: after stop() has resolved the
\* cleanup sweep (storage.deleteExpired) is no longer triggered, and across
\* any sequence of start/stop/start cycles at most one cleanup timer is
\* active at a time
C33_CleanupStops ==
  [][/\ cleanupTimers' <= 1
     /\ ~(stopped /\ SweepStep)]_vars

\* stop() has resolved and the engine is not running, the cleanup timer set
\* by start() is still live, and a stored notification has expired: the
\* sweep will delete it
C33_Witness ==
  /\ stopped /\ ~isRunning /\ stopping = 0 /\ starting = 0
  /\ cleanupTimers = 1
  /\ \E n \in stored : Expired(n)

\* start, stop, start: two cleanup timers are live
C33_WitnessTwoTimers == cleanupTimers = 2 /\ isRunning /\ lifeOps = 3


\* ============================================== properties: worker ticks
RECURSIVE Flatten(_)
Flatten(ss) == IF ss = <<>> THEN <<>> ELSE Head(ss) \o Flatten(Tail(ss))

\* the notifications the queue holds or the worker has taken from it: the
\* ready queue, the delayed queue, the batches of ticks suspended on
\* dequeueBatch, and the delivery passes of the worker
InWorker ==
  queue \o [i \in 1..Len(delayedQueue) |-> delayedQueue[i].notification]
        \o Flatten(ticks)
        \o [i \in 1..Len(SelectSeq(passes, LAMBDA ps : ps.owner = 0)) |->
              SelectSeq(passes, LAMBDA ps : ps.owner = 0)[i].n]
NoDuplicates(s) == \A i, j \in 1..Len(s) : i # j => s[i] # s[j]

\* C34: each worker tick removes at most `concurrency` notifications from
\* the queue and hands each of them to sendNow exactly once; also when ticks
\* overlap no notification enqueued once is handed to sendNow by two ticks,
\* so the worker invokes its transports at most once per channel
C34_HandedOnce ==
  [][/\ NoDuplicates(InWorker')
     /\ TickStep =>
          /\ Len(ticks'[Len(ticks')]) <= config.concurrency
          /\ queue = ticks'[Len(ticks')] \o queue'
     /\ (ticks # <<>> /\ ticks' = Tail(ticks)) =>
          /\ Len(passes') = Len(passes) + Len(Head(ticks))
          /\ \A i \in 1..Len(Head(ticks)) :
               /\ passes'[Len(passes) + i].n = Head(ticks)[i]
               /\ passes'[Len(passes) + i].owner = 0
     /\ \A k \in 1..Len(passes) :
          passes[k].owner = 0 =>
            \A i \in 1..Len(passes[k].ch) :
              passes[k].ch[i] # "wait" => passes'[k].ch[i] = passes[k].ch[i]]_vars

\* with concurrency 1 two ticks overlap: the delivery passes of two
\* notifications are both waiting for their transports
C34_Witness ==
  /\ config.concurrency = 1
  /\ \E k1, k2 \in 1..Len(passes) :
       /\ k1 # k2 /\ passes[k1].owner = 0 /\ passes[k2].owner = 0
       /\ passes[k1].n # passes[k2].n
       /\ passes[k1].pc = "chan" /\ passes[k2].pc = "chan"
       /\ \E i \in 1..Len(passes[k1].ch) : passes[k1].ch[i] = "wait"
       /\ \E i \in 1..Len(passes[k2].ch) : passes[k2].ch[i] = "wait"


\* ============================================ properties: delayed queue
\* the notifications a sequence of delayed-queue items holds
Held(items) == [i \in 1..Len(items) |-> items[i].notification]

\* the delayed queue is checked on this step and gives items to the queue
DelayedStep == Len(delayedQueue') < Len(delayedQueue)

\* C35: a notification sent with scheduledFor = T is held in the delayed
\* queue and is not returned by dequeue / dequeueBatch, hence not passed to
\* any transport, before the clock reaches T; it is moved to the ready
\* queue, after the items already there, by the first delayed-queue check at
\* or after T
C35_HeldUntilDue ==
  [][/\ \A p \in DOMAIN sends :
          (sends[p].enq = <<>> /\ sends'[p].enq # <<>> /\ sends'[p].pc = "enq"
             /\ notif[sends[p].n].scheduledFor # NoDate) =>
            /\ queue' = queue
            /\ delayedQueue' = Append(delayedQueue,
                                      [notification |-> sends[p].n,
                                       executeAt |-> notif[sends[p].n].scheduledFor])
     /\ \A i \in 1..Len(InWorker') :
          LET n == InWorker'[i]
          IN (notif'[n].scheduledFor # NoDate /\ now' < notif'[n].scheduledFor) =>
               \E j \in 1..Len(delayedQueue') : delayedQueue'[j].notification = n
     /\ DelayedStep =>
          LET due == SelectSeq(delayedQueue, LAMBDA item : item.executeAt <= now)
          IN /\ queue' = queue \o Held(due)
             /\ delayedQueue' =
                  SelectSeq(delayedQueue, LAMBDA item : item.executeAt > now)]_vars

\* a notification scheduled for time 2 was sent first and an immediate one
\* after it; at time 2 the scheduled one stands in the ready queue behind
\* the other
C35_Witness ==
  /\ now = 2 /\ Len(queue) = 2 /\ delayedQueue = <<>>
  /\ queue[2] < queue[1]
  /\ notif[queue[2]].scheduledFor = 2 /\ notif[queue[1]].scheduledFor = NoDate


\* ================================================== properties: liveness
\* notification n waits in the ready queue or in the delayed queue
Enqueued(n) ==
  \/ \E i \in 1..Len(queue) : queue[i] = n
  \/ \E i \in 1..Len(delayedQueue) : delayedQueue[i].notification = n

\* the worker has taken n from the queue and n is stored with a final status
Persisted(n) ==
  /\ n \in stored /\ notif[n].status \in {"sent", "delivered", "failed"}
  /\ \E k \in 1..Len(passes) : passes[k].owner = 0 /\ passes[k].n = n

\* C36: with a queue, the engine started with workers enabled and never
\* stopped, and storage, queue and transports that never throw, every
\* notification that send enqueued, at once or delayed, is eventually
\* dequeued by a worker tick and persisted with a status in
\* {sent, delivered, failed}, under fairness of the timer ticks
C36_EventuallyDelivered ==
  \A n \in 1..(MaxSends + 1) : (Enqueued(n) /\ isRunning) ~> Persisted(n)

\* a notification scheduled for time 2 went through the delayed queue, the
\* ready queue and a delivery pass of the worker and is stored as delivered
C36_Witness ==
  \E n \in 1..Len(notif) :
    /\ Persisted(n) /\ notif[n].scheduledFor = 2 /\ notif[n].status = "delivered"
    /\ isRunning /\ workerTimers = 1 /\ queue = <<>> /\ delayedQueue = <<>>


\* ================================================== properties: deletion
\* C37: a deleted notification stays deleted: once delete(id), or deleteAll
\* for its user, has resolved, findById(id) returns null in every later
\* state; no engine operation, in particular no worker tick delivering a
\* notification enqueued before the deletion, writes it back into storage
C37_StaysDeleted == \A n \in deleted : NotFound(n)

\* a delete of the notification has resolved and none is in flight, and the
\* worker's delivery pass has saved the notification again, as delivered
C37_Witness ==
  \E k \in 1..Len(passes) :
    /\ passes[k].owner = 0 /\ passes[k].pc = "done"
    /\ passes[k].n \in deleted /\ passes[k].n \in stored
    /\ notif[passes[k].n].status = "delivered"
    /\ readOps = <<>>

\* no step stores a notification whose deletion has resolved
C37_NoWriteBack ==
  [][\A n \in deleted : NotFound(n) => n \notin stored']_vars


\* ============================================ properties: canSend gate
\* delivery pass k invokes its transports on this step
FanOutStep(k) == passes[k].pc = "prefs" /\ passes'[k].pc = "chan"

\* retryFailed call j invokes a transport on this step
RetryInvokeStep(j) == retryOps[j].pc = "prefs" /\ retryOps'[j].pc = "sending"

\* C38: every transport.send the engine makes for a notification, from
\* send / sendNow, from the queue worker and from retryFailed, happens only
\* after that transport's canSend returned true for the notification and
\* the preferences loaded in the same operation; no transport is invoked
\* for a user whose loaded preferences have globalMute = true
C38_SendOnlyIfCanSend ==
  [][/\ \A k \in 1..Len(passes) :
          FanOutStep(k) =>
            \A i \in 1..Len(passes'[k].ch) :
              passes'[k].ch[i] = "wait" =>
                /\ ~passes[k].prefs.globalMute
                /\ CanSend(notif[passes[k].n].channels[i], notif[passes[k].n],
                           passes[k].prefs, config.hour)
     /\ \A j \in 1..Len(retryOps) :
          RetryInvokeStep(j) =>
            /\ ~retryOps[j].prefs.globalMute
            /\ CanSend(retryOps[j].todo[retryOps[j].idx], notif[retryOps[j].id],
                       retryOps[j].prefs, config.hour)]_vars

\* retryFailed loaded preferences with globalMute = true and invoked the
\* transport of the failed channel all the same
C38_Witness ==
  \E j \in 1..Len(retryOps) :
    /\ retryOps[j].pc \in {"sending", "resolved"}
    /\ retryOps[j].invoked = <<"inapp">>
    /\ retryOps[j].prefs.globalMute
    /\ GetPreferences(notif[retryOps[j].id].userId).globalMute

\* the part of C38 that is about delivery passes
C38_PassesGated ==
  [][\A k \in 1..Len(passes) :
       FanOutStep(k) =>
         \A i \in 1..Len(passes'[k].ch) :
           passes'[k].ch[i] = "wait" =>
             /\ ~passes[k].prefs.globalMute
             /\ CanSend(notif[passes[k].n].channels[i], notif[passes[k].n],
                        passes[k].prefs, config.hour)]_vars

\* C39: in a delivery pass a failed receipt is synthesized for a channel only
\* if that channel's transport.send threw: a channel whose transport.send
\* returned a receipt enters the aggregation with the returned status, and a
\* pass with a channel whose transport returned delivered ends delivered.
C39_ReturnedReceiptUsed ==
  \A k \in 1..Len(passes) :
    LET ps == passes[k]
    IN \A i \in 1..Len(ps.rc) :
         ps.ch[i] = "done" =>
           /\ i \notin ps.threw => ps.rc[i] = ps.ret[i]
           /\ (ps.pc \in {"save", "done"} /\ ps.ret[i] = "delivered")
                => ps.final = "delivered"

\* a pass ended failed although the transport of one of its channels returned
\* a delivered receipt and the other transport threw
C39_Witness ==
  \E k \in 1..Len(passes) :
    /\ passes[k].pc = "done" /\ passes[k].final = "failed"
    /\ \E i \in 1..Len(passes[k].ret) :
         passes[k].ret[i] = "delivered" /\ i \notin passes[k].threw
    /\ passes[k].threw # {}

\* the call has resolved for user u
Resolved(u, call) == [user |-> u, call |-> call] \in prefLog

\* C40: preference updates of one user that touch different fields do not
\* lose each other: once updatePreferences(u, {globalMute: true}) and
\* enableDigest(u, cfg) have both resolved, and no disableDigest(u) has, the
\* stored preferences of u have globalMute = true and the digest config,
\* in every interleaving of the reads and writes of the calls.
C40_NoLostUpdate ==
  \A u \in config.users :
    ( /\ Resolved(u, UpdateCall([globalMute |-> TRUE]))
      /\ Resolved(u, EnableCall("daily"))
      /\ ~Resolved(u, DisableCall) )
    => /\ GetPreferences(u).globalMute
       /\ "digestConfig" \in DOMAIN Data(GetPreferences(u))
       /\ Data(GetPreferences(u)).digestConfig = "daily"

\* both calls have resolved, no call is in flight, and the stored
\* preferences have the digest config but not the mute
C40_Witness ==
  \E u \in config.users :
    /\ Resolved(u, UpdateCall([globalMute |-> TRUE]))
    /\ Resolved(u, EnableCall("daily"))
    /\ ~Resolved(u, DisableCall)
    /\ prefOps = <<>>
    /\ ~GetPreferences(u).globalMute
    /\ "digestConfig" \in DOMAIN Data(GetPreferences(u))

\* the mute has resolved after the digest call, no call is in flight, and
\* the stored preferences have the mute but not the digest config
C40_WitnessDigestLost ==
  \E u \in config.users :
    /\ Resolved(u, UpdateCall([globalMute |-> TRUE]))
    /\ Resolved(u, EnableCall("daily"))
    /\ ~Resolved(u, DisableCall)
    /\ prefOps = <<>>
    /\ GetPreferences(u).globalMute
    /\ "digestConfig" \notin DOMAIN Data(GetPreferences(u))

====
